---- MODULE Spec2Model ----
(***************************************************************************)
(* Model of the memory-efficient XGBoost trainer of quick-time-series:     *)
(* backend-ml/app/utils/chunked_processor.py (ChunkedXGBoostProcessor).    *)
(*                                                                         *)
(* Two specifications share this module.                                   *)
(*   Spec     one call of process_parquet_bytes seen through its row       *)
(*            arithmetic: row count, chunk-size estimate, path selection,  *)
(*            the test block, the chunk loop with its buffers and the      *)
(*            boosting rounds.  Row counts keep the program's scale        *)
(*            (1000-row floor, 10000-row default, 100 rounds).             *)
(*   SpecEnc  the same chunked run seen through its data: the encoding of  *)
(*            the test block, of the first chunk and of later chunks, and  *)
(*            the reconciliation against feature_names, on small blocks.   *)
(***************************************************************************)
EXTENDS Integers, Sequences, FiniteSets, TLC

(***************************************************************************)
(* Bounds of the model.                                                    *)
(***************************************************************************)
\* largest multiple of 1000 rows tried as a "many chunks" dataset
MaxKiloRows == 130
\* rows of a data block in SpecEnc
MaxBlockRows == 2
\* training chunks after the first one in SpecEnc
MaxLaterChunks == 2

(***************************************************************************)
(* Program constants.                                                      *)
(***************************************************************************)
TargetMb == 25
MinRowsPerChunk == 1000
DefaultRowsPerChunk == 10000
SampleRows == 1000
TotalRounds == 100
KibPerMb == 1024
RequestMaxMemoryMb == 100
FallbackTotalRows == 1000000
TrainSampleFloor == 100

Min(a, b) == IF a <= b THEN a ELSE b
Max(a, b) == IF a >= b THEN a ELSE b

(***************************************************************************)
(* Inputs of a run.                                                        *)
(***************************************************************************)
\* rows of the parquet table (table.num_rows)
RowCounts == {0, 1, 1000, 1001, 2600, 10000, 10001, 50000,
              MaxKiloRows * 1000}
\* test_size in hundredths; for these values int(total_rows * (1 - test_size))
\* in IEEE doubles equals the exact floor for every row count up to 200000
TestPcts == {0, 20, 100}
\* max_memory_mb of the request (its default, and a budget of 25 MB)
MemoryBudgets == {TargetMb, RequestMaxMemoryMb}
\* deep memory usage of one sampled row, in KiB (0: unmeasurable footprint);
\* footprints are whole KiB so that the products stay below 2^31
KibPerRowChoices == {0, 1, 2, 26}

VARIABLES
    pc,              \* position of the run
    max_memory_mb,   \* self.max_memory_mb
    test_pct,        \* test_size * 100
    num_rows,        \* rows of the table
    total_rows,      \* result of _count_rows
    sample,          \* what _estimate_rows_per_memory measured (local to it)
    target_mb,       \* the target_mb argument _estimate_rows_per_memory got
    rows_per_25mb,   \* result of _estimate_rows_per_memory
    path,            \* "none", "full" or "chunked"
    rows_per_chunk,  \* argument of _process_in_chunks
    train_rows,
    test_block,      \* row range of test_query
    num_chunks,
    chunk_idx,
    cur,             \* row range of the chunk query issued last
    chunks,          \* row ranges handed to xgb.train, in call order
    rounds,          \* num_boost_round of each xgb.train call, in call order
    model,           \* rounds held by self.model, -1 for None
    live,            \* local buffers alive: chunk_df, X_chunk/y_chunk, dtrain
    all_train_X,     \* the list all_train_X (all_train_y alongside)
    chunks_processed,
    result,          \* returned dict, NoResult before, or an error record
    warnings,        \* estimation failures logged with logger.warning
    train_samples,   \* rows of each chunk in train_X_sample / train_y_sample
    \* the data view of a chunked run (SpecEnc)
    epc,                    \* position of the run
    categorical_encodings,  \* encodings returned by _prepare_data(test_df)
    feature_names,          \* self.feature_names, <<>> for None
    X_test_pre,             \* X_test as split from the encoded test block
    X_test,                 \* X_test after reconciliation
    X_pre,                  \* X_chunk as split from the encoded chunk
    X_chunk,                \* X_chunk after reconciliation
    block,                  \* the raw block read last
    boosted,                \* column lists of the DMatrix of each xgb.train
    dtest_cols,             \* column list of dtest
    later,                  \* chunks processed after the first one
    exclude_columns,        \* the exclude_columns argument
    columns_to_include,     \* columns every query of the run selects
    y_chunk,                \* y_chunk as split from the encoded chunk
    \* one request to memory_efficient_analyze seen through its answer
    \* (SpecApi), and get_feature_importance on its own (SpecImp)
    apc,                \* position of the handler
    request,            \* what the request names and what the store holds
    retrieve_calls,     \* calls of retrieve_parquet_data
    store_gets,         \* keys read from the store, in order
    delete_calls,       \* calls of delete_dataset
    store_keys,         \* keys of the dataset the store holds
    delete_success,     \* what delete_dataset returned, if it was called
    parquet_data,       \* "none" (None), "empty" (b"") or "bytes"
    ml_processor,       \* MemoryEfficientML has been constructed
    processing_type,    \* path the trainer took: "none", "full", "chunked"
    rows_seen,          \* blocks whose rows a query has returned
    trained,            \* self.model is not None
    X_test_len,         \* rows of X_test
    raw_metrics,        \* the four metrics as computed
    metrics,            \* self.metrics
    render_failure,     \* what raised inside _generate_shap_plots
    shap_plots,         \* dict returned by _generate_shap_plots
    rendered,           \* plots saved by _get_plot_as_base64
    schema,             \* self.feature_names as get_feature_importance sees it
    importance_scores,  \* model.get_score(importance_type='gain')
    feature_importance, \* list returned by get_feature_importance
    run_result,         \* what process_parquet_bytes returned or raised
    response,           \* what the handler answered
    \* the choice of the three force-plot rows in _generate_shap_plots
    \* (SpecPct)
    y_pred,             \* predictions for the rows of X_sample
    sorted_indices,     \* np.argsort(y_pred)
    force_idx,          \* low_idx, med_idx and high_idx
    \* two requests to memory_efficient_analyze in one server process
    \* (SpecIso)
    tasks,              \* the two handler coroutines and their locals
    running,            \* the coroutine the event loop is executing, 0: none
    heap,               \* the ChunkedXGBoostProcessor objects constructed
    accesses,           \* reads and writes of processor attributes
    figure,             \* matplotlib.pyplot's current figure (module state)
    store               \* dataset ids the store holds

vars == <<pc, max_memory_mb, test_pct, num_rows, total_rows, sample, target_mb,
          rows_per_25mb, path, rows_per_chunk, train_rows, test_block,
          num_chunks, chunk_idx, cur, chunks, rounds, model, live,
          all_train_X, chunks_processed, result, warnings, train_samples,
          epc, categorical_encodings, feature_names, X_test_pre, X_test,
          X_pre, X_chunk, block, boosted, dtest_cols, later,
          exclude_columns, columns_to_include, y_chunk,
          apc, request, retrieve_calls, store_gets, delete_calls,
          store_keys, delete_success,
          parquet_data, ml_processor, processing_type, rows_seen, trained,
          X_test_len, raw_metrics, metrics, render_failure, shap_plots,
          rendered, schema, importance_scores, feature_importance,
          run_result, response, y_pred, sorted_indices, force_idx,
          tasks, running, heap, accesses, figure, store>>

encVars == <<epc, categorical_encodings, feature_names, X_test_pre, X_test,
             X_pre, X_chunk, block, boosted, dtest_cols, later,
             exclude_columns, columns_to_include, y_chunk>>
mainVars == <<pc, max_memory_mb, test_pct, num_rows, total_rows, sample,
              target_mb, rows_per_25mb, path, rows_per_chunk, train_rows,
              test_block, num_chunks, chunk_idx, cur, chunks, rounds, model,
              live, all_train_X, chunks_processed, result, warnings,
              train_samples>>

pctVars == <<y_pred, sorted_indices, force_idx>>
isoVars == <<tasks, running, heap, accesses, figure, store>>
apiVars == <<apc, request, retrieve_calls, store_gets, delete_calls,
          store_keys, delete_success,
             parquet_data, ml_processor, processing_type, rows_seen, trained,
             X_test_len, raw_metrics, metrics, render_failure, shap_plots,
             rendered, schema, importance_scores, feature_importance,
             run_result, response, pctVars, isoVars>>

NoSample == [len |-> -1, kib |-> -1, raised |-> FALSE]
NoRange == [offset |-> -1, limit |-> -1]
NoResult == [kind |-> "none"]
NoFrame == [cols |-> <<>>, obj |-> {}, rows |-> <<>>]
NoSeries == [present |-> FALSE, values |-> <<>>]
NoForce == [low |-> -1, med |-> -1, high |-> -1]
NoBlock == [levels |-> <<>>, dateok |-> TRUE]
NoResponse == [status |-> 0]
NoRequest == [dataset |-> "none", has_date |-> TRUE, has_target |-> TRUE,
              delete_after_analysis |-> TRUE]
NoMetrics == [test_rmse |-> 0]
EmptyDict == [k \in {} |-> 0]
NoEncodings == [has |-> FALSE, categorical_columns |-> <<>>]

planVars == <<max_memory_mb, test_pct, num_rows>>
loopVars == <<train_rows, test_block, num_chunks, chunk_idx, cur, chunks,
              rounds, model, live, all_train_X, chunks_processed>>


(***************************************************************************)
(* Chunk Planner: _count_rows and _estimate_rows_per_memory.               *)
(***************************************************************************)
\* what the estimator can see of a table of n rows: the first
\* min(1000, n) rows and their deep memory usage, or a failed read
Samples(n) ==
    {[len |-> Min(SampleRows, n), kib |-> Min(SampleRows, n) * b,
      raised |-> FALSE] : b \in KibPerRowChoices}
    \cup {[len |-> -1, kib |-> -1, raised |-> TRUE]}

\* int(target_mb / memory_per_row), memory_per_row = bytes / len / 2^20,
\* with the sample's bytes counted in KiB.  For len <= 1000 the
\* double-precision quotient truncates to this floor.
RowsPerTarget(s, target) == (target * KibPerMb * s.len) \div s.kib

EstimateNoFloor(s, target) ==
    IF s.raised THEN DefaultRowsPerChunk
    ELSE IF s.len > 0
         THEN IF s.kib = 0
              THEN DefaultRowsPerChunk
              ELSE RowsPerTarget(s, target)
         ELSE DefaultRowsPerChunk

\* _estimate_rows_per_memory.  A zero footprint makes target_mb /
\* memory_per_row infinite (or raise), int() of it raises, and the except
\* branch returns the default.
EstimateRowsPerMemory(s, target) ==
    IF s.raised THEN DefaultRowsPerChunk
    ELSE IF s.len > 0
         THEN IF s.kib = 0
              THEN DefaultRowsPerChunk
              ELSE Max(MinRowsPerChunk, RowsPerTarget(s, target))
         ELSE DefaultRowsPerChunk

\* the estimation ends in its except branch: the read raised, or the
\* footprint is zero and int() of the infinite quotient raised
EstimateFails(s) == s.raised \/ (s.len > 0 /\ s.kib = 0)

UseFullBatchStrict(total, estimate) == total < estimate

\* the test of process_parquet_bytes: total_rows <= rows_per_25mb
UseFullBatch(total, estimate) == total <= estimate

(***************************************************************************)
(* Row arithmetic of _process_in_chunks.                                   *)
(***************************************************************************)
\* int(total_rows * (1 - test_size))
TrainRows(total, pct) == (total * (100 - pct)) \div 100

NumChunksFloor(train, rpc) == train \div rpc

\* (train_rows + rows_per_chunk - 1) // rows_per_chunk
NumChunks(train, rpc) == (train + rpc - 1) \div rpc

ChunkOffsetShifted(idx, rpc) == (idx + 1) * rpc

\* offset = chunk_idx * rows_per_chunk
ChunkOffset(idx, rpc) == idx * rpc

ChunkLimitUnclamped(offset, train, rpc) == rpc

\* min(rows_per_chunk, train_rows - offset)
ChunkLimit(offset, train, rpc) == Min(rpc, train - offset)

RoundsPerChunkCeil(n) == (TotalRounds + n - 1) \div n

\* num_boost_round = 100 // num_chunks
RoundsPerChunk(n) == TotalRounds \div n

\* train_test_split of the full-batch path raises for a float test_size
\* outside (0, 1) and when the training part would be empty
SplitOk(n, pct) == pct > 0 /\ pct < 100 /\ (n * (100 - pct)) \div 100 > 0

\* rows that "LIMIT limit OFFSET offset" returns from a view of n rows
RowsRead(r, n) == Max(0, Min(r.offset + r.limit, n) - r.offset)

\* xgb.train on a DMatrix of the given number of rows: TRUE when it returns.
\* Whether training on a matrix without rows raises depends on the library
\* build, so both outcomes are kept.
TrainReturns(rows) == IF rows = 0 THEN BOOLEAN ELSE {TRUE}

RECURSIVE SumRange(_, _, _)
\* q[lo] + ... + q[hi], by halving
SumRange(q, lo, hi) ==
    IF lo > hi THEN 0
    ELSE IF lo = hi THEN q[lo]
    ELSE LET mid == (lo + hi) \div 2
         IN SumRange(q, lo, mid) + SumRange(q, mid + 1, hi)

SumSeq(q) == SumRange(q, 1, Len(q))

\* chunk_sample_size of one chunk of n rows: min(n, max(100, int(n * 0.2)))
ChunkSampleSize(n) == Min(n, Max(TrainSampleFloor, n \div 5))

\* rows of each retained chunk that go into train_X_sample and into
\* train_y_sample (the same sample_indices select both): the per-chunk
\* samples when there are several chunks, all of all_train_X[0] otherwise,
\* nothing when the retained chunks hold no row
TrainSample(all) ==
    LET total == SumSeq([i \in DOMAIN all |-> all[i].rows])
        train_sample_size == Min(Len(all) * 1000, total)
    IN IF train_sample_size > 0
       THEN IF Len(all) > 1
            THEN [i \in DOMAIN all |->
                     [chunk |-> all[i].chunk,
                      x_rows |-> ChunkSampleSize(all[i].rows),
                      y_rows |-> ChunkSampleSize(all[i].rows)]]
            ELSE [i \in DOMAIN all |->
                     [chunk |-> all[i].chunk,
                      x_rows |-> all[i].rows,
                      y_rows |-> all[i].rows]]
       ELSE <<>>

Buffer(name, idx) == [name |-> name, chunk |-> idx]

Failure(e) == [kind |-> "error", error |-> e]

(***************************************************************************)
(* Init: a freshly constructed processor and the request it will serve.    *)
(***************************************************************************)
MainInit ==
    /\ pc = "start"
    /\ max_memory_mb \in MemoryBudgets
    /\ test_pct \in TestPcts
    /\ num_rows \in RowCounts
    /\ total_rows = -1
    /\ sample = NoSample
    /\ target_mb = -1
    /\ rows_per_25mb = -1
    /\ path = "none"
    /\ rows_per_chunk = -1
    /\ train_rows = -1
    /\ test_block = NoRange
    /\ num_chunks = -1
    /\ chunk_idx = -1
    /\ cur = NoRange
    /\ chunks = <<>>
    /\ rounds = <<>>
    /\ model = -1
    /\ live = {}
    /\ all_train_X = <<>>
    /\ chunks_processed = 0
    /\ result = NoResult
    /\ warnings = {}
    /\ train_samples = <<>>

\* the data view is not exercised by Spec
EncIdle ==
    /\ epc = "idle"
    /\ categorical_encodings = NoEncodings
    /\ feature_names = <<>>
    /\ X_test_pre = NoFrame
    /\ X_test = NoFrame
    /\ X_pre = NoFrame
    /\ X_chunk = NoFrame
    /\ block = NoBlock
    /\ boosted = <<>>
    /\ dtest_cols = <<>>
    /\ later = 0
    /\ exclude_columns = <<>>
    /\ columns_to_include = <<>>
    /\ y_chunk = NoSeries

\* no request is being answered in Spec and SpecEnc
ApiIdle ==
    /\ apc = "idle"
    /\ request = NoRequest
    /\ retrieve_calls = 0
    /\ store_gets = <<>>
    /\ delete_calls = 0
    /\ store_keys = {}
    /\ delete_success = "not_called"
    /\ parquet_data = "none"
    /\ ml_processor = FALSE
    /\ processing_type = "none"
    /\ rows_seen = {}
    /\ trained = FALSE
    /\ X_test_len = 0
    /\ raw_metrics = NoMetrics
    /\ metrics = EmptyDict
    /\ render_failure = "none"
    /\ shap_plots = EmptyDict
    /\ rendered = {}
    /\ schema = <<>>
    /\ importance_scores = EmptyDict
    /\ feature_importance = <<>>
    /\ run_result = NoResult
    /\ response = NoResponse

\* no force-plot rows are being chosen outside SpecPct
PctIdle ==
    /\ y_pred = <<>>
    /\ sorted_indices = <<>>
    /\ force_idx = NoForce

\* no pair of concurrent requests outside SpecIso
IsoIdle ==
    /\ tasks = <<>>
    /\ running = 0
    /\ heap = <<>>
    /\ accesses = {}
    /\ figure = {}
    /\ store = {}

Init == MainInit /\ EncIdle /\ ApiIdle /\ PctIdle /\ IsoIdle

(***************************************************************************)
(* process_parquet_bytes                                                   *)
(***************************************************************************)
\* total_rows = await self._count_rows(con, buffer): table.num_rows, or
\* 1000000 when reading the table raises
CountRows ==
    /\ pc = "start"
    /\ UNCHANGED <<encVars, apiVars>>
    /\ \E raised \in BOOLEAN :
          /\ total_rows' = IF raised THEN FallbackTotalRows ELSE num_rows
          /\ warnings' = IF raised THEN warnings \cup {"count"} ELSE warnings
    /\ pc' = "estimate"
    /\ UNCHANGED <<planVars, train_samples, sample, target_mb, rows_per_25mb, path,
                   rows_per_chunk, loopVars, result>>

\* rows_per_25mb = await self._estimate_rows_per_memory(buffer, 25)
EstimateRows ==
    /\ pc = "estimate"
    /\ UNCHANGED <<encVars, apiVars>>
    /\ \E s \in Samples(num_rows) :
          /\ sample' = s
          /\ rows_per_25mb' = EstimateRowsPerMemory(s, TargetMb)
          /\ warnings' = IF EstimateFails(s)
                         THEN warnings \cup {"estimate"}
                         ELSE warnings
    /\ target_mb' = TargetMb
    /\ pc' = "select"
    /\ UNCHANGED <<planVars, train_samples, total_rows, path, rows_per_chunk, loopVars,
                   result>>

\* if total_rows <= rows_per_25mb: ... else: ...
SelectPath ==
    /\ pc = "select"
    /\ UNCHANGED <<encVars, apiVars>>
    /\ IF UseFullBatch(total_rows, rows_per_25mb)
       THEN /\ path' = "full"
            /\ pc' = "full"
            /\ UNCHANGED rows_per_chunk
       ELSE /\ path' = "chunked"
            /\ pc' = "chunked"
            /\ rows_per_chunk' = rows_per_25mb
    /\ sample' = NoSample
    /\ UNCHANGED <<planVars, train_samples, warnings, total_rows, target_mb, rows_per_25mb,
                   loopVars,
                   result>>

\* _process_all_data
ProcessAllData ==
    /\ pc = "full"
    /\ UNCHANGED <<encVars, apiVars>>
    /\ IF SplitOk(num_rows, test_pct)
       THEN /\ result' = [kind |-> "result", processing_type |-> "full",
                          total_rows |-> num_rows, rows_per_chunk |-> -1,
                          chunks_processed |-> -1,
                          metrics_chunks_processed |-> -1]
            /\ model' = TotalRounds
            /\ pc' = "done"
       ELSE /\ result' = Failure("ValueError")
            /\ model' = model
            /\ pc' = "failed"
    /\ UNCHANGED <<planVars, train_samples, warnings, total_rows, sample, target_mb,
                   rows_per_25mb,
                   path, rows_per_chunk, train_rows, test_block, num_chunks,
                   chunk_idx, cur, chunks, rounds, live, all_train_X,
                   chunks_processed>>

(***************************************************************************)
(* _process_in_chunks: test block, first chunk, chunk loop, evaluation.    *)
(* test_df, X_test and self.test_data stay alive for the whole run; live   *)
(* and all_train_X hold what the run keeps of the training chunks.         *)
(***************************************************************************)
\* train_rows, the test query and num_chunks
ExtractTest ==
    /\ pc = "chunked"
    /\ UNCHANGED <<encVars, apiVars>>
    /\ train_rows' = TrainRows(total_rows, test_pct)
    /\ test_block' = [offset |-> train_rows',
                      limit |-> total_rows - train_rows']
    /\ num_chunks' = NumChunks(train_rows', rows_per_chunk)
    /\ all_train_X' = <<>>
    /\ pc' = "load_first"
    /\ UNCHANGED <<planVars, train_samples, warnings, total_rows, sample, target_mb,
                   rows_per_25mb,
                   path, rows_per_chunk, chunk_idx, cur, chunks, rounds,
                   model, live, chunks_processed, result>>

\* first_chunk_query: LIMIT min(rows_per_chunk, train_rows) OFFSET 0
LoadFirstChunk ==
    /\ pc = "load_first"
    /\ UNCHANGED <<encVars, apiVars>>
    /\ chunk_idx' = 0
    /\ cur' = [offset |-> 0, limit |-> ChunkLimit(0, train_rows, rows_per_chunk)]
    /\ live' = {Buffer("chunk_df", 0)}
    /\ pc' = "encode_first"
    /\ UNCHANGED <<planVars, train_samples, warnings, total_rows, sample, target_mb,
                   rows_per_25mb,
                   path, rows_per_chunk, train_rows, test_block, num_chunks,
                   chunks, rounds, model, all_train_X, chunks_processed,
                   result>>

\* encode the first chunk, split it, keep a copy for the train metrics
EncodeFirstChunk ==
    /\ pc = "encode_first"
    /\ UNCHANGED <<encVars, apiVars>>
    /\ live' = live \cup {Buffer("X_chunk", chunk_idx)}
    /\ all_train_X' = Append(all_train_X,
                             [chunk |-> chunk_idx,
                              rows |-> RowsRead(cur, num_rows)])
    /\ pc' = "boost_first"
    /\ UNCHANGED <<planVars, train_samples, warnings, total_rows, sample, target_mb,
                   rows_per_25mb,
                   path, rows_per_chunk, train_rows, test_block, num_chunks,
                   chunk_idx, cur, chunks, rounds, model, chunks_processed,
                   result>>

\* dtrain = DMatrix(...); self.model = xgb.train(..., 100 // num_chunks)
\* 100 // num_chunks raises ZeroDivisionError when train_rows is 0
BoostFirstChunk ==
    /\ pc = "boost_first"
    /\ UNCHANGED <<encVars, apiVars>>
    /\ IF num_chunks = 0
       THEN /\ result' = Failure("ZeroDivisionError")
            /\ pc' = "failed"
            /\ live' = live \cup {Buffer("dtrain", chunk_idx)}
            /\ UNCHANGED <<chunks, rounds, model>>
       ELSE \E returns \in TrainReturns(RowsRead(cur, num_rows)) :
              /\ live' = live \cup {Buffer("dtrain", chunk_idx)}
              /\ IF returns
                 THEN /\ chunks' = Append(chunks, cur)
                      /\ rounds' = Append(rounds, RoundsPerChunk(num_chunks))
                      /\ model' = RoundsPerChunk(num_chunks)
                      /\ pc' = "release_first"
                      /\ UNCHANGED result
                 ELSE /\ result' = Failure("XGBoostError")
                      /\ pc' = "failed"
                      /\ UNCHANGED <<chunks, rounds, model>>
    /\ UNCHANGED <<planVars, train_samples, warnings, total_rows, sample, target_mb,
                   rows_per_25mb,
                   path, rows_per_chunk, train_rows, test_block, num_chunks,
                   chunk_idx, cur, all_train_X, chunks_processed>>

\* del dtrain, X_chunk, y_chunk, first_chunk; chunks_processed = 1
ReleaseFirstChunk ==
    /\ pc = "release_first"
    /\ UNCHANGED <<encVars, apiVars>>
    /\ live' = {}
    /\ chunks_processed' = 1
    /\ chunk_idx' = 1
    /\ pc' = "loop"
    /\ UNCHANGED <<planVars, train_samples, warnings, total_rows, sample, target_mb,
                   rows_per_25mb,
                   path, rows_per_chunk, train_rows, test_block, num_chunks,
                   cur, chunks, rounds, model, all_train_X, result>>

\* loop head: offset, limit, the chunk query
LoadChunk ==
    /\ pc = "loop"
    /\ UNCHANGED <<encVars, apiVars>>
    /\ chunk_idx < num_chunks
    /\ LET offset == ChunkOffset(chunk_idx, rows_per_chunk)
           limit == ChunkLimit(offset, train_rows, rows_per_chunk)
       IN /\ limit > 0
          /\ cur' = [offset |-> offset, limit |-> limit]
    /\ live' = {Buffer("chunk_df", chunk_idx)}
    /\ pc' = "encode"
    /\ UNCHANGED <<planVars, train_samples, warnings, total_rows, sample, target_mb,
                   rows_per_25mb,
                   path, rows_per_chunk, train_rows, test_block, num_chunks,
                   chunk_idx, chunks, rounds, model, all_train_X,
                   chunks_processed, result>>

\* range(1, num_chunks) is exhausted, or limit <= 0: break
ExitLoop ==
    /\ pc = "loop"
    /\ UNCHANGED <<encVars, apiVars>>
    /\ \/ chunk_idx >= num_chunks
       \/ ChunkLimit(ChunkOffset(chunk_idx, rows_per_chunk), train_rows,
                     rows_per_chunk) <= 0
    /\ pc' = "metrics"
    /\ UNCHANGED <<planVars, train_samples, warnings, total_rows, sample, target_mb,
                   rows_per_25mb,
                   path, rows_per_chunk, loopVars, result>>

\* encode the chunk, reconcile it with feature_names, keep a copy
EncodeChunk ==
    /\ pc = "encode"
    /\ UNCHANGED <<encVars, apiVars>>
    /\ live' = live \cup {Buffer("X_chunk", chunk_idx)}
    /\ all_train_X' = Append(all_train_X,
                             [chunk |-> chunk_idx,
                              rows |-> RowsRead(cur, num_rows)])
    /\ pc' = "boost"
    /\ UNCHANGED <<planVars, train_samples, warnings, total_rows, sample, target_mb,
                   rows_per_25mb,
                   path, rows_per_chunk, train_rows, test_block, num_chunks,
                   chunk_idx, cur, chunks, rounds, model, chunks_processed,
                   result>>

\* a boosting step that trains a fresh ensemble (no xgb_model argument)
BoostChunkFresh ==
    /\ pc = "boost"
    /\ UNCHANGED <<encVars, apiVars>>
    /\ live' = live \cup {Buffer("dtrain", chunk_idx)}
    /\ \E returns \in TrainReturns(RowsRead(cur, num_rows)) :
          IF returns
          THEN /\ chunks' = Append(chunks, cur)
               /\ rounds' = Append(rounds, RoundsPerChunk(num_chunks))
               /\ model' = RoundsPerChunk(num_chunks)
               /\ chunks_processed' = chunks_processed + 1
               /\ pc' = "release"
               /\ UNCHANGED result
          ELSE /\ result' = Failure("XGBoostError")
               /\ pc' = "failed"
               /\ UNCHANGED <<chunks, rounds, model, chunks_processed>>
    /\ UNCHANGED <<planVars, train_samples, warnings, total_rows, sample,
                   target_mb, rows_per_25mb, path, rows_per_chunk, train_rows,
                   test_block, num_chunks, chunk_idx, cur, all_train_X>>

\* a boosting step that records its failure and goes on with the next chunk
BoostChunkSkipsFailure ==
    /\ pc = "boost"
    /\ UNCHANGED <<encVars, apiVars>>
    /\ live' = live \cup {Buffer("dtrain", chunk_idx)}
    /\ \E returns \in TrainReturns(RowsRead(cur, num_rows)) :
          IF returns
          THEN /\ chunks' = Append(chunks, cur)
               /\ rounds' = Append(rounds, RoundsPerChunk(num_chunks))
               /\ model' = model + RoundsPerChunk(num_chunks)
               /\ chunks_processed' = chunks_processed + 1
               /\ pc' = "release"
               /\ UNCHANGED result
          ELSE /\ result' = Failure("XGBoostError")
               /\ pc' = "release"
               /\ UNCHANGED <<chunks, rounds, model, chunks_processed>>
    /\ UNCHANGED <<planVars, train_samples, warnings, total_rows, sample, target_mb,
                   rows_per_25mb, path, rows_per_chunk, train_rows,
                   test_block, num_chunks, chunk_idx, cur, all_train_X>>

\* xgb.train(..., 100 // num_chunks, xgb_model=self.model); chunks_processed += 1
BoostChunk ==
    /\ pc = "boost"
    /\ UNCHANGED <<encVars, apiVars>>
    /\ live' = live \cup {Buffer("dtrain", chunk_idx)}
    /\ \E returns \in TrainReturns(RowsRead(cur, num_rows)) :
          IF returns
          THEN /\ chunks' = Append(chunks, cur)
               /\ rounds' = Append(rounds, RoundsPerChunk(num_chunks))
               /\ model' = model + RoundsPerChunk(num_chunks)
               /\ chunks_processed' = chunks_processed + 1
               /\ pc' = "release"
               /\ UNCHANGED result
          ELSE /\ result' = Failure("XGBoostError")
               /\ pc' = "failed"
               /\ UNCHANGED <<chunks, rounds, model, chunks_processed>>
    /\ UNCHANGED <<planVars, train_samples, warnings, total_rows, sample, target_mb,
                   rows_per_25mb, path, rows_per_chunk, train_rows,
                   test_block, num_chunks, chunk_idx, cur, all_train_X>>

\* del dtrain, X_chunk, y_chunk, chunk_df; next chunk_idx
ReleaseChunk ==
    /\ pc = "release"
    /\ UNCHANGED <<encVars, apiVars>>
    /\ live' = {}
    /\ chunk_idx' = chunk_idx + 1
    /\ pc' = "loop"
    /\ UNCHANGED <<planVars, train_samples, warnings, total_rows, sample, target_mb,
                   rows_per_25mb,
                   path, rows_per_chunk, train_rows, test_block, num_chunks,
                   cur, chunks, rounds, model, all_train_X,
                   chunks_processed, result>>

\* train metrics, test evaluation, SHAP, importance, del all_train_X, return.
\* mean_squared_error raises ValueError when the test query returned no row.
Finish ==
    /\ pc = "metrics"
    /\ UNCHANGED <<encVars, apiVars>>
    /\ train_samples' = TrainSample(all_train_X)
    /\ IF RowsRead(test_block, num_rows) = 0
       THEN /\ result' = Failure("ValueError")
            /\ pc' = "failed"
            /\ UNCHANGED all_train_X
       ELSE /\ result' = [kind |-> "result", processing_type |-> "chunked",
                          total_rows |-> total_rows,
                          rows_per_chunk |-> rows_per_chunk,
                          chunks_processed |-> chunks_processed,
                          metrics_chunks_processed |-> chunks_processed]
            /\ all_train_X' = <<>>
            /\ pc' = "done"
    /\ UNCHANGED <<planVars, warnings, total_rows, sample, target_mb,
                   rows_per_25mb,
                   path, rows_per_chunk, train_rows, test_block, num_chunks,
                   chunk_idx, cur, chunks, rounds, model, live,
                   chunks_processed>>

Next ==
    \/ CountRows
    \/ EstimateRows
    \/ SelectPath
    \/ ProcessAllData
    \/ ExtractTest
    \/ LoadFirstChunk
    \/ EncodeFirstChunk
    \/ BoostFirstChunk
    \/ ReleaseFirstChunk
    \/ LoadChunk
    \/ ExitLoop
    \/ EncodeChunk
    \/ BoostChunk
    \/ ReleaseChunk
    \/ Finish

Spec == Init /\ [][Next]_vars

TypeOK ==
    /\ pc \in {"start", "estimate", "select", "full", "chunked", "load_first",
               "encode_first", "boost_first", "release_first", "loop",
               "encode", "boost", "release", "metrics", "done", "failed"}
    /\ path \in {"none", "full", "chunked"}
    /\ model \in -1..TotalRounds
    /\ Len(chunks) = Len(rounds)

(***************************************************************************)
(* Properties of the row arithmetic, the buffers and the rounds (Spec).    *)
(***************************************************************************)
\* two row ranges share a row index
Overlap(r, t) ==
    /\ r.limit > 0
    /\ t.limit > 0
    /\ r.offset < t.offset + t.limit
    /\ t.offset < r.offset + r.limit

\* the chunk loop has ended normally
LoopComplete == path = "chunked" /\ pc \in {"metrics", "done"}

\* chunks whose raw or encoded data the run still holds
RetainedChunks ==
    {b.chunk : b \in live}
    \cup {all_train_X[i].chunk : i \in DOMAIN all_train_X}

\* C1: no training-data leakage.  The test block is [train_rows, total_rows)
\* with train_rows = floor(total_rows * (1 - test_size)), and neither the
\* range of the chunk query issued last nor the range of any chunk handed
\* to xgb.train shares a row index with it.
C1_NoLeakage ==
    test_block # NoRange =>
        /\ train_rows = (total_rows * (100 - test_pct)) \div 100
        /\ test_block.offset = train_rows
        /\ test_block.offset + test_block.limit = total_rows
        /\ cur # NoRange => ~Overlap(cur, test_block)
        /\ \A i \in DOMAIN chunks : ~Overlap(chunks[i], test_block)

\* a run whose last training chunk is cut short by the test block
C1_Witness ==
    /\ pc = "metrics"
    /\ Len(chunks) >= 2
    /\ chunks[Len(chunks)].limit < rows_per_chunk
    /\ chunks[Len(chunks)].offset + chunks[Len(chunks)].limit
           = test_block.offset
    /\ test_block.limit > 0

\* C2: the chunks handed to xgb.train are non-empty, start at row 0, each
\* starts where the previous one ends (so offsets ascend strictly and the
\* ranges are pairwise disjoint), and once the loop has ended they cover
\* exactly [0, train_rows) while the test block is [train_rows, total_rows).
C2_Partition ==
    /\ \A i \in DOMAIN chunks :
          /\ chunks[i].limit > 0
          /\ chunks[i].offset =
                 (IF i = 1 THEN 0
                  ELSE chunks[i - 1].offset + chunks[i - 1].limit)
          /\ i > 1 => chunks[i - 1].offset < chunks[i].offset
    /\ LoopComplete =>
          /\ Len(chunks) >= 1
          /\ chunks[Len(chunks)].offset + chunks[Len(chunks)].limit
                 = train_rows
          /\ test_block.offset = train_rows
          /\ test_block.offset + test_block.limit = total_rows

\* a finished run of three or more chunks whose last chunk is partial
C2_Witness ==
    /\ pc = "done"
    /\ path = "chunked"
    /\ Len(chunks) >= 3
    /\ chunks[Len(chunks)].limit < rows_per_chunk
    /\ chunks[Len(chunks)].offset + chunks[Len(chunks)].limit = train_rows

\* C3: memory bound.  The run holds raw or encoded data of at most one
\* training chunk, and while chunk chunk_idx is loaded, encoded, boosted or
\* released nothing of an earlier chunk is retained.
C3_MemoryBound ==
    /\ Cardinality(RetainedChunks) <= 1
    /\ pc \in {"encode", "boost", "release"} =>
           RetainedChunks \subseteq {chunk_idx}

\* C6: every xgb.train call gets floor(100 / num_chunks) rounds, and when
\* the loop has ended the rounds applied sum to 100 - (100 mod num_chunks),
\* which is also what the ensemble holds.
C6_RoundsSum ==
    /\ \A i \in DOMAIN rounds : rounds[i] = TotalRounds \div num_chunks
    /\ LoopComplete =>
          /\ Len(rounds) = chunks_processed
          /\ SumSeq(rounds) = TotalRounds - (TotalRounds % num_chunks)
          /\ model = SumSeq(rounds)

\* a completed loop whose chunk count does not divide 100
C6_Witness ==
    /\ LoopComplete
    /\ num_chunks > 1
    /\ TotalRounds % num_chunks # 0
    /\ Len(rounds) = num_chunks
    /\ SumSeq(rounds) < TotalRounds

\* C7: the total of boosting rounds is the same for every chunk count (a
\* one-chunk run applies 100, so every run applies 100) and every chunk
\* contributes at least one round.
C7_ChunkCountInvariance ==
    LoopComplete =>
        /\ SumSeq(rounds) = TotalRounds
        /\ \A i \in DOMAIN rounds : rounds[i] >= 1

\* C8: the full-batch path is taken exactly when total_rows <= the
\* estimate; the full-batch path issues no chunk or test-block query and
\* reports "full"; the chunked path uses the estimate as rows_per_chunk and
\* reports "chunked" with that rows_per_chunk.
C8_PathSelection ==
    path # "none" =>
        /\ (path = "full") <=> (total_rows <= rows_per_25mb)
        /\ path = "full" =>
              /\ chunks = <<>>
              /\ test_block = NoRange
              /\ rows_per_chunk = -1
        /\ path = "chunked" => rows_per_chunk = rows_per_25mb
        /\ result.kind = "result" =>
              /\ result.processing_type = path
              /\ path = "chunked" => result.rows_per_chunk = rows_per_25mb

\* a full-batch result for a table with exactly as many rows as estimated
C8_Witness ==
    /\ pc = "done"
    /\ path = "full"
    /\ total_rows = rows_per_25mb
    /\ result.kind = "result"
    /\ result.processing_type = "full"

\* C9: the estimator is called with target_mb = max_memory_mb, so the
\* planned rows per chunk is the estimate for the caller's budget.
C9_BudgetGovernsChunkSize ==
    pc = "select" =>
        /\ target_mb = max_memory_mb
        /\ rows_per_25mb = EstimateRowsPerMemory(sample, max_memory_mb)

\* C10: the estimate is an integer >= 1000: max(1000, floor(target_mb /
\* per-row footprint)) for a non-empty measurable sample, and 10000 for an
\* empty sample, a zero footprint or a failed estimation.
C10_EstimateFloor ==
    /\ rows_per_25mb # -1 => rows_per_25mb \in Int /\ rows_per_25mb >= 1000
    /\ pc = "select" =>
          IF ~sample.raised /\ sample.len > 0 /\ sample.kib > 0
          THEN LET q == (target_mb * KibPerMb * sample.len) \div sample.kib
               IN rows_per_25mb = (IF q > 1000 THEN q ELSE 1000)
          ELSE rows_per_25mb = 10000

\* a measurable sample whose quotient is below the 1000-row floor
C10_Witness ==
    /\ pc = "select"
    /\ ~sample.raised
    /\ sample.len > 0
    /\ sample.kib > 0
    /\ (target_mb * KibPerMb * sample.len) \div sample.kib < 1000
    /\ rows_per_25mb = 1000

\* a request no run can serve, whatever the estimates are: an empty test
\* part (test_size 0) or an empty training part
Unservable(n, pct) ==
    pct = 0 \/ pct = 100 \/ (n * (100 - pct)) \div 100 = 0

\* C11: estimation failures never abort a run.  After a failed row count
\* the run goes on with total_rows = 1000000, after a failed per-row size
\* estimation with 10000 rows per chunk, no error is produced by the two
\* estimation steps, and a run that logged an estimation failure ends in an
\* error only if the request cannot be served at all.
C11_EstimationNeverAborts ==
    /\ "count" \in warnings => total_rows = 1000000
    /\ "estimate" \in warnings => rows_per_25mb = 10000
    /\ pc \in {"estimate", "select"} => result = NoResult
    /\ (warnings # {} /\ result.kind = "error") =>
           Unservable(num_rows, test_pct)

\* C18: in a chunked run with train_rows >= 1, num_chunks is
\* ceil(train_rows / rows_per_chunk), the loop ends only when every chunk
\* index 0..num_chunks-1 has been processed (each with a non-empty range),
\* and the result reports chunks_processed = num_chunks in metrics and at
\* the top level.
C18_ChunkCount ==
    (path = "chunked" /\ train_rows >= 1) =>
        /\ num_chunks * rows_per_chunk >= train_rows
        /\ (num_chunks - 1) * rows_per_chunk < train_rows
        /\ cur # NoRange => cur.limit > 0
        /\ pc \in {"metrics", "done"} =>
              /\ chunk_idx = num_chunks
              /\ chunks_processed = num_chunks
              /\ Len(chunks) = num_chunks
        /\ result.kind = "result" =>
              /\ result.chunks_processed = num_chunks
              /\ result.metrics_chunks_processed = num_chunks

\* 50000 rows, test_size 0.2, 10000 rows per chunk: 4 chunks reported
C18_Witness ==
    /\ pc = "done"
    /\ path = "chunked"
    /\ total_rows = 50000
    /\ test_pct = 20
    /\ rows_per_chunk = 10000
    /\ train_rows = 40000
    /\ result.kind = "result"
    /\ result.chunks_processed = 4
    /\ result.metrics_chunks_processed = 4

\* C19: a chunk whose computed row range is empty, the first chunk of a
\* run with train_rows = 0 included, does not abort the run: the run does
\* not end in an error.
C19_EmptyChunksDoNotAbort ==
    (path = "chunked" /\ cur # NoRange /\ cur.limit <= 0) =>
        /\ pc # "failed"
        /\ result.kind # "error"

\* C21: a failure of a boosting step is fatal.  When xgb.train raises on
\* chunk k the run stops there: the chunks handed to xgb.train are exactly
\* the k-1 chunks before it, the caller gets one error record that carries
\* no metrics, importance or model, and after the error no chunk is loaded,
\* encoded or boosted again and the error is not replaced.
C21_TrainingFailureFatal ==
    /\ [](result.kind = "error" =>
             /\ pc = "failed"
             /\ DOMAIN result = {"kind", "error"})
    /\ []((pc = "failed" /\ result = Failure("XGBoostError")) =>
             /\ Len(chunks) = chunk_idx
             /\ chunks_processed = chunk_idx
             /\ model = IF chunk_idx = 0 THEN -1
                        ELSE chunk_idx * RoundsPerChunk(num_chunks))
    /\ [][result.kind = "error" =>
             UNCHANGED <<cur, chunk_idx, chunks, rounds, model,
                         chunks_processed, result>>]_vars

\* xgb.train raised on the third chunk, after two chunks had been boosted
C21_Witness ==
    /\ pc = "failed"
    /\ result = Failure("XGBoostError")
    /\ chunk_idx = 2
    /\ Len(chunks) = 2
    /\ model = 2 * RoundsPerChunk(num_chunks)
    /\ model > 0

\* C26: bounded train-metric sample.  In every chunked run, a run with one
\* training chunk included, the rows of a processed chunk of n rows that
\* go into the train-metric sample number min(n, max(100, floor(0.2 n))),
\* the same for the features and for the target.
C26_BoundedTrainSample ==
    (path = "chunked" /\ pc \in {"done", "failed"}) =>
        \A i \in DOMAIN train_samples :
            LET n == RowsRead(chunks[i], num_rows)
            IN /\ train_samples[i].x_rows = ChunkSampleSize(n)
               /\ train_samples[i].x_rows <= Max(TrainSampleFloor, n \div 5)
               /\ train_samples[i].y_rows = train_samples[i].x_rows

\* C27: additive model state.  In a chunked run the ensemble is None until
\* the first chunk is boosted, after k boosted chunks it holds exactly
\* k * floor(100 / num_chunks) rounds, every step that changes it is a
\* boosting step that adds floor(100 / num_chunks) rounds to the rounds
\* already there (a fresh ensemble only on the first chunk), and the round
\* count never decreases.
C27_AdditiveModel ==
    /\ [](path = "chunked" =>
            /\ (chunks = <<>> => model = -1)
            /\ (chunks # <<>> =>
                   model = Len(chunks) * RoundsPerChunk(num_chunks)))
    /\ [][path = "chunked" => model' >= model]_vars
    /\ [][(path = "chunked" /\ model' # model) =>
            /\ pc \in {"boost_first", "boost"}
            /\ pc = "boost_first" =>
                  (model = -1 /\ model' = RoundsPerChunk(num_chunks))
            /\ pc = "boost" =>
                  (model # -1 /\ model' = model + RoundsPerChunk(num_chunks))
         ]_vars

\* 50000 rows in 4 chunks of 25 rounds each: 75 rounds after the third chunk
C27_Witness ==
    /\ path = "chunked"
    /\ pc = "release"
    /\ num_chunks = 4
    /\ Len(chunks) = 3
    /\ model = 75

(***************************************************************************)
(* Feature Encoder.  A data frame is [cols, obj, rows]: the ordered column *)
(* names, the columns of object dtype, and one function from column name   *)
(* to value per row.  A column name is [col, level]: level 0 for a column  *)
(* of the table, level l >= 1 for the one-hot column of level l of col     *)
(* (pandas' "col_l").  Levels are numbered in their sort order.            *)
(***************************************************************************)
NumLevels == 3
Levels == 1..NumLevels

AllColumns == <<"d", "n", "c", "y">>
DateColumn == "d"
TargetColumn == "y"
\* the exclude_columns lists of the requests: none, the target and a
\* numeric column, the date column and the categorical column
ExcludeColumns == {<<>>, <<"y", "n">>, <<"d", "c">>}

Name(col, level) == [col |-> col, level |-> level]
Range(q) == {q[i] : i \in DOMAIN q}

RECURSIVE SortedSeq(_)
\* the elements of a finite set of integers in ascending order
SortedSeq(S) ==
    IF S = {} THEN <<>>
    ELSE LET m == CHOOSE x \in S : \A z \in S : x <= z
         IN <<m>> \o SortedSeq(S \ {m})

\* columns_to_include of process_parquet_bytes
ColumnsToInclude(all, exclude, date, target) ==
    LET exclude_columns_list ==
            IF date \in Range(exclude) THEN exclude ELSE Append(exclude, date)
        columns_to_exclude == Range(exclude_columns_list)
        Included(c) == c \notin columns_to_exclude \/ c = target
        included == SelectSeq(all, Included)
    IN IF date \in Range(included) THEN included ELSE Append(included, date)

\* a raw block: the categorical level of each row, and whether the values
\* of the date column of the block parse as dates.  Row i holds 10 + i in
\* the numeric column, 100 + i in the target and, as date string, i.
Blocks ==
    {b \in {[levels |-> lv, dateok |-> ok] :
               lv \in UNION {[1..k -> Levels] : k \in 0..MaxBlockRows},
               ok \in BOOLEAN} :
        b.levels = <<>> => b.dateok}

CellValue(blk, i, col) ==
    CASE col = "n" -> 10 + i
      [] col = "c" -> blk.levels[i]
      [] col = "y" -> 100 + i
      [] OTHER -> i

\* fetchdf() of a chunk or test query, which selects columns_to_include:
\* VARCHAR columns come as object dtype
FetchDf(blk) ==
    LET names == [j \in DOMAIN columns_to_include |->
                     Name(columns_to_include[j], 0)]
    IN [cols |-> names,
        obj |-> {nm \in Range(names) : nm.col \in {"c", "d"}},
        rows |-> [i \in DOMAIN blk.levels |->
                     [nm \in Range(names) |-> CellValue(blk, i, nm.col)]]]

DropColumn(df, nm) ==
    LET Keep(c) == c # nm
    IN [cols |-> SelectSeq(df.cols, Keep),
        obj |-> df.obj \ {nm},
        rows |-> [i \in DOMAIN df.rows |->
                     [c \in Range(df.cols) \ {nm} |-> df.rows[i][c]]]]

\* _extract_date_features: the date column is dropped when it is (or can be
\* converted to) datetime; when the conversion fails the frame is returned
\* as it is, date column included.  An empty column always converts.
ExtractDateFeatures(df, date, dateok) ==
    IF Name(date, 0) \in Range(df.cols)
    THEN IF dateok \/ df.rows = <<>>
         THEN DropColumn(df, Name(date, 0))
         ELSE df
    ELSE df

\* the one-hot columns of column nm: one per level present, first dropped
DummyNames(df, nm) ==
    LET present == {df.rows[i][nm] : i \in DOMAIN df.rows}
        sorted == SortedSeq(present)
    IN IF sorted = <<>> THEN <<>>
       ELSE [j \in 1..(Len(sorted) - 1) |-> Name(nm.col, sorted[j + 1])]

RECURSIVE AllDummyNames(_, _)
AllDummyNames(df, cats) ==
    IF cats = <<>> THEN <<>>
    ELSE DummyNames(df, cats[1]) \o AllDummyNames(df, Tail(cats))

\* pd.get_dummies(df, columns=cats, drop_first=True)
GetDummies(df, cats) ==
    LET Keep(c) == c \notin Range(cats)
        newcols == SelectSeq(df.cols, Keep) \o AllDummyNames(df, cats)
    IN [cols |-> newcols,
        obj |-> df.obj \ Range(cats),
        rows |-> [i \in DOMAIN df.rows |->
                    [nm \in Range(newcols) |->
                        IF nm.level = 0 THEN df.rows[i][nm]
                        ELSE IF df.rows[i][Name(nm.col, 0)] = nm.level
                             THEN 1 ELSE 0]]]

\* _prepare_data: one-hot encode the columns of object dtype
PrepareData(df) ==
    LET IsObject(c) == c \in df.obj
        categorical_columns == SelectSeq(df.cols, IsObject)
    IN IF categorical_columns # <<>>
       THEN [df |-> GetDummies(df, categorical_columns),
             encodings |-> [has |-> TRUE,
                            categorical_columns |-> categorical_columns]]
       ELSE [df |-> df, encodings |-> NoEncodings]

\* _apply_transformations: replay the recorded categorical columns
ApplyTransformations(df, encodings) ==
    IF encodings.has
    THEN LET Present(c) == c \in Range(df.cols)
             categorical_columns ==
                 SelectSeq(encodings.categorical_columns, Present)
         IN IF categorical_columns # <<>>
            THEN GetDummies(df, categorical_columns)
            ELSE df
    ELSE df

\* _split_features_target: X is the frame without the target column
SplitFeatures(df, target) ==
    IF Name(target, 0) \in Range(df.cols)
    THEN DropColumn(df, Name(target, 0))
    ELSE df

\* _split_features_target: y is the target column, None when it is absent
SplitTarget(df, target) ==
    IF Name(target, 0) \in Range(df.cols)
    THEN [present |-> TRUE,
          values |-> [i \in DOMAIN df.rows |-> df.rows[i][Name(target, 0)]]]
    ELSE NoSeries

RECURSIVE ListOfSet(_)
\* list(missing_features): the names of a set in some order
ListOfSet(S) ==
    IF S = {} THEN <<>>
    ELSE LET m == CHOOSE x \in S : TRUE
         IN <<m>> \o ListOfSet(S \ {m})

PadMissingOnes(X, missing) ==
    LET extra == ListOfSet(missing)
    IN [cols |-> X.cols \o extra,
        obj |-> X.obj,
        rows |-> [i \in DOMAIN X.rows |->
                    [nm \in Range(X.cols) \cup missing |->
                        IF nm \in missing THEN 1 ELSE X.rows[i][nm]]]]

\* pd.concat([X, pd.DataFrame(0, index=X.index, columns=list(missing))], axis=1)
PadMissing(X, missing) ==
    LET extra == ListOfSet(missing)
    IN [cols |-> X.cols \o extra,
        obj |-> X.obj,
        rows |-> [i \in DOMAIN X.rows |->
                    [nm \in Range(X.cols) \cup missing |->
                        IF nm \in missing THEN 0 ELSE X.rows[i][nm]]]]

\* X[self.feature_names]
SelectColumns(X, names) ==
    [cols |-> names,
     obj |-> X.obj \cap Range(names),
     rows |-> [i \in DOMAIN X.rows |-> [nm \in Range(names) |-> X.rows[i][nm]]]]

AlignNoReorder(X, names) ==
    LET missing_features == Range(names) \ Range(X.cols)
    IN IF missing_features # {} THEN PadMissing(X, missing_features) ELSE X

\* add the missing features as zero columns, then "ensure columns order"
Align(X, names) ==
    LET missing_features == Range(names) \ Range(X.cols)
        padded == IF missing_features # {}
                  THEN PadMissing(X, missing_features)
                  ELSE X
    IN SelectColumns(padded, names)

\* the encoding of a training chunk before the split
TransformBlock(blk, encodings) ==
    ApplyTransformations(
        ExtractDateFeatures(FetchDf(blk), DateColumn, blk.dateok),
        encodings)

\* the whole encoding of a training chunk up to the split
EncodeBlock(blk, encodings) ==
    SplitFeatures(TransformBlock(blk, encodings), TargetColumn)

(***************************************************************************)
(* _process_in_chunks seen through its data (SpecEnc).                     *)
(***************************************************************************)
MainIdle ==
    /\ pc = "none"
    /\ max_memory_mb = RequestMaxMemoryMb
    /\ test_pct = 20
    /\ num_rows = 0
    /\ total_rows = -1
    /\ sample = NoSample
    /\ target_mb = -1
    /\ rows_per_25mb = -1
    /\ path = "none"
    /\ rows_per_chunk = -1
    /\ train_rows = -1
    /\ test_block = NoRange
    /\ num_chunks = -1
    /\ chunk_idx = -1
    /\ cur = NoRange
    /\ chunks = <<>>
    /\ rounds = <<>>
    /\ model = -1
    /\ live = {}
    /\ all_train_X = <<>>
    /\ chunks_processed = 0
    /\ result = NoResult
    /\ warnings = {}
    /\ train_samples = <<>>

EncInit ==
    /\ epc = "test"
    /\ categorical_encodings = NoEncodings
    /\ feature_names = <<>>
    /\ X_test_pre = NoFrame
    /\ X_test = NoFrame
    /\ X_pre = NoFrame
    /\ X_chunk = NoFrame
    /\ block = NoBlock
    /\ boosted = <<>>
    /\ dtest_cols = <<>>
    /\ later = 0
    /\ exclude_columns \in ExcludeColumns
    /\ columns_to_include = ColumnsToInclude(AllColumns, exclude_columns,
                                             DateColumn, TargetColumn)
    /\ y_chunk = NoSeries

InitEnc == MainIdle /\ EncInit /\ ApiIdle /\ PctIdle /\ IsoIdle

\* test_df: fetch, _extract_date_features, _prepare_data, split
EncExtractTest ==
    /\ epc = "test"
    /\ UNCHANGED <<mainVars, apiVars>>
    /\ \E blk \in Blocks :
          LET prepared == PrepareData(
                  ExtractDateFeatures(FetchDf(blk), DateColumn, blk.dateok))
          IN /\ categorical_encodings' = prepared.encodings
             /\ X_test_pre' = SplitFeatures(prepared.df, TargetColumn)
    /\ epc' = "first"
    /\ UNCHANGED <<feature_names, X_test, X_pre, X_chunk, block, boosted,
                   dtest_cols, later, exclude_columns, columns_to_include,
                   y_chunk>>

\* first chunk: fetch, encode, split, self.feature_names = X_chunk.columns
EncFirstChunk ==
    /\ epc = "first"
    /\ UNCHANGED <<mainVars, apiVars>>
    /\ \E blk \in Blocks :
          /\ block' = blk
          /\ X_pre' = EncodeBlock(blk, categorical_encodings)
          /\ y_chunk' = SplitTarget(
                            TransformBlock(blk, categorical_encodings),
                            TargetColumn)
    /\ X_chunk' = X_pre'
    /\ feature_names' = X_pre'.cols
    /\ epc' = "boost"
    /\ UNCHANGED <<categorical_encodings, X_test_pre, X_test, boosted,
                   dtest_cols, later, exclude_columns, columns_to_include>>

\* xgb.DMatrix(X_chunk, label=y_chunk), xgb.train, release of the chunk.
\* DMatrix rejects a frame with a column of object dtype.
EncBoost ==
    /\ epc = "boost"
    /\ UNCHANGED <<mainVars, apiVars>>
    /\ IF X_chunk.obj # {}
       THEN /\ epc' = "failed"
            /\ UNCHANGED <<boosted, X_pre, X_chunk, block, y_chunk>>
       ELSE /\ boosted' = Append(boosted, X_chunk.cols)
            /\ X_pre' = NoFrame
            /\ X_chunk' = NoFrame
            /\ y_chunk' = NoSeries
            /\ block' = NoBlock
            /\ epc' = "loop"
    /\ UNCHANGED <<categorical_encodings, feature_names, X_test_pre, X_test,
                   dtest_cols, later, exclude_columns, columns_to_include>>

\* training on a chunk without rows may raise (100 // 0 on the first chunk,
\* or the library on an empty DMatrix)
EncBoostEmptyFails ==
    /\ epc = "boost"
    /\ UNCHANGED <<mainVars, apiVars>>
    /\ X_chunk.rows = <<>>
    /\ epc' = "failed"
    /\ UNCHANGED <<categorical_encodings, feature_names, X_test_pre, X_test,
                   X_pre, X_chunk, block, boosted, dtest_cols, later,
                   exclude_columns, columns_to_include, y_chunk>>

\* a later chunk that takes its own columns as the schema
EncLaterChunkRederives ==
    /\ epc = "loop"
    /\ UNCHANGED <<mainVars, apiVars>>
    /\ later < MaxLaterChunks
    /\ \E blk \in Blocks :
          /\ block' = blk
          /\ X_pre' = EncodeBlock(blk, categorical_encodings)
          /\ y_chunk' = SplitTarget(
                            TransformBlock(blk, categorical_encodings),
                            TargetColumn)
    /\ X_chunk' = X_pre'
    /\ feature_names' = X_pre'.cols
    /\ later' = later + 1
    /\ epc' = "boost"
    /\ UNCHANGED <<categorical_encodings, X_test_pre, X_test,
                   boosted, dtest_cols, exclude_columns, columns_to_include>>

\* a later chunk: fetch, encode, split, add missing columns, reorder
EncLaterChunk ==
    /\ epc = "loop"
    /\ UNCHANGED <<mainVars, apiVars>>
    /\ later < MaxLaterChunks
    /\ \E blk \in Blocks :
          /\ block' = blk
          /\ X_pre' = EncodeBlock(blk, categorical_encodings)
          /\ y_chunk' = SplitTarget(
                            TransformBlock(blk, categorical_encodings),
                            TargetColumn)
    /\ X_chunk' = Align(X_pre', feature_names)
    /\ later' = later + 1
    /\ epc' = "boost"
    /\ UNCHANGED <<categorical_encodings, feature_names, X_test_pre, X_test,
                   boosted, dtest_cols, exclude_columns, columns_to_include>>

\* after the loop: reconcile X_test, dtest = xgb.DMatrix(X_test), metrics.
\* The metrics raise on a test block without rows.
EncEvaluate ==
    /\ epc = "loop"
    /\ UNCHANGED <<mainVars, apiVars>>
    /\ X_test' = Align(X_test_pre, feature_names)
    /\ IF X_test'.obj # {}
       THEN /\ epc' = "failed"
            /\ UNCHANGED dtest_cols
       ELSE /\ dtest_cols' = X_test'.cols
            /\ epc' = IF X_test'.rows = <<>> THEN "failed" ELSE "evaluated"
    /\ UNCHANGED <<categorical_encodings, feature_names, X_test_pre, X_pre,
                   X_chunk, block, boosted, later, exclude_columns,
                   columns_to_include, y_chunk>>

\* _generate_shap_plots(X_test, self.feature_names) and
\* get_feature_importance(): both read feature_names
EncExplain ==
    /\ epc = "evaluated"
    /\ UNCHANGED <<mainVars, apiVars>>
    /\ epc' = "explained"
    /\ UNCHANGED <<categorical_encodings, feature_names, X_test_pre, X_test,
                   X_pre, X_chunk, block, boosted, dtest_cols, later,
                   exclude_columns, columns_to_include, y_chunk>>

NextEnc ==
    \/ EncExtractTest
    \/ EncFirstChunk
    \/ EncBoost
    \/ EncBoostEmptyFails
    \/ EncLaterChunk
    \/ EncEvaluate
    \/ EncExplain

SpecEnc == InitEnc /\ [][NextEnc]_vars

(***************************************************************************)
(* Properties of the encoding (SpecEnc).                                   *)
(***************************************************************************)
\* C4: schema stability.  The columns of the DMatrix of every xgb.train and
\* of dtest are exactly feature_names: same names, same count, same order;
\* a reconciled block holds no column outside feature_names.
C4_SchemaStability ==
    /\ \A i \in DOMAIN boosted : boosted[i] = feature_names
    /\ (epc = "boost" /\ later >= 1) =>
          /\ X_chunk.cols = feature_names
          /\ \A i \in DOMAIN X_chunk.rows :
                DOMAIN X_chunk.rows[i] = Range(feature_names)
    /\ dtest_cols # <<>> => dtest_cols = feature_names

\* a later chunk, about to be boosted, whose own encoding had a column
\* outside feature_names and lacked one of feature_names
C4_Witness ==
    /\ epc = "boost"
    /\ later >= 1
    /\ X_chunk.rows # <<>>
    /\ \E nm \in Range(X_pre.cols) : nm \notin Range(feature_names)
    /\ \E nm \in Range(feature_names) : nm \notin Range(X_pre.cols)
    /\ X_chunk.cols = feature_names

\* C5: zero-padding.  A one-hot column of feature_names whose level does not
\* occur in a later chunk (or in the test block) is present in the
\* reconciled matrix with 0 in every row, and every column the block's own
\* encoding had keeps its values.
C5_ZeroPadding ==
    /\ (epc = "boost" /\ later >= 1) =>
          /\ Len(X_chunk.rows) = Len(X_pre.rows)
          /\ \A j \in DOMAIN feature_names :
                LET nm == feature_names[j]
                IN \A i \in DOMAIN X_chunk.rows :
                      /\ nm \in DOMAIN X_chunk.rows[i]
                      /\ (nm.col = "c" /\ block.levels[i] # nm.level)
                             => X_chunk.rows[i][nm] = 0
                      /\ nm \in Range(X_pre.cols)
                             => X_chunk.rows[i][nm] = X_pre.rows[i][nm]
    /\ epc \in {"evaluated", "failed"} /\ dtest_cols # <<>> =>
          /\ Len(X_test.rows) = Len(X_test_pre.rows)
          /\ \A j \in DOMAIN feature_names :
                LET nm == feature_names[j]
                IN \A i \in DOMAIN X_test.rows :
                      /\ nm \in DOMAIN X_test.rows[i]
                      /\ nm \notin Range(X_test_pre.cols)
                             => X_test.rows[i][nm] = 0
                      /\ nm \in Range(X_test_pre.cols)
                             => X_test.rows[i][nm] = X_test_pre.rows[i][nm]

\* a later chunk with rows that lacks a level of feature_names and has
\* another one-hot column of its own with a 1 in it
C5_Witness ==
    /\ epc = "boost"
    /\ later >= 1
    /\ X_chunk.rows # <<>>
    /\ \E j \in DOMAIN feature_names :
          /\ feature_names[j].col = "c"
          /\ \A i \in DOMAIN block.levels :
                block.levels[i] # feature_names[j].level
          /\ feature_names[j] \notin Range(X_pre.cols)
    /\ \E j \in DOMAIN feature_names :
          /\ feature_names[j].level > 0
          /\ feature_names[j] \in Range(X_pre.cols)
          /\ \E i \in DOMAIN X_chunk.rows : X_chunk.rows[i][feature_names[j]] = 1

\* the column names of a frame that come from the date column: the column
\* itself or a one-hot column derived from it
DateDerived(cols) == {nm \in Range(cols) : nm.col = DateColumn}

\* C22: the date column is never a feature.  Whatever the date values of the
\* test block, the first chunk and the later chunks are (unparseable ones
\* included), no encoded feature matrix, feature_names included, holds the
\* date column or a one-hot column derived from it, and the date column is
\* never recorded as a categorical column.
C22_DateNeverFeature ==
    /\ DateDerived(X_test_pre.cols) = {}
    /\ DateDerived(X_pre.cols) = {}
    /\ DateDerived(X_chunk.cols) = {}
    /\ DateDerived(X_test.cols) = {}
    /\ DateDerived(feature_names) = {}
    /\ categorical_encodings.has =>
           Name(DateColumn, 0) \notin
               Range(categorical_encodings.categorical_columns)

\* the target values of the rows of a raw block
TargetValues(blk) ==
    [i \in DOMAIN blk.levels |-> CellValue(blk, i, TargetColumn)]

\* the columns of a frame that are a given table column or derived from it
DerivedFrom(cols, c) == {nm \in Range(cols) : nm.col = c}

\* C23: the target column is read and used as the label even when
\* exclude_columns lists it, every other column listed in exclude_columns is
\* never read into a block and never appears, directly or one-hot encoded,
\* in feature_names, and the target column is never a feature column.
C23_ColumnSelection ==
    /\ epc # "idle" => TargetColumn \in Range(columns_to_include)
    /\ epc = "boost" =>
          /\ y_chunk.present
          /\ y_chunk.values = TargetValues(block)
    /\ \A c \in Range(exclude_columns) \ {TargetColumn} :
          /\ c \notin Range(columns_to_include)
          /\ DerivedFrom(feature_names, c) = {}
    /\ DerivedFrom(feature_names, TargetColumn) = {}

\* the first training chunk as fetched, after _extract_date_features
FirstChunkFrame == ExtractDateFeatures(FetchDf(block), DateColumn, block.dateok)

\* C24: the categorical columns replayed on the training chunks are those
\* discovered in the first training chunk: when the first chunk is handed
\* to xgb.train, the columns that were one-hot encoded in it are exactly
\* its columns of object dtype and none of those is left in X_chunk,
\* whatever the test block held.
C24_EncodingOrigin ==
    (epc = "boost" /\ later = 0) =>
        /\ {c \in Range(categorical_encodings.categorical_columns) :
               c \in Range(FirstChunkFrame.cols)} = FirstChunkFrame.obj
        /\ X_chunk.obj = {}

\* C25: the Feature Schema is frozen.  feature_names is None until the first
\* training chunk has been encoded, is then assigned the columns of the
\* encoded first chunk, and no later step (a later chunk, the alignment and
\* evaluation of the test block, explainability, importance) changes it.
C25_SchemaFrozen ==
    /\ [](epc \in {"test", "first"} => feature_names = <<>>)
    /\ [][epc = "first" =>
            feature_names' =
                EncodeBlock(block', categorical_encodings).cols]_vars
    /\ [][epc \notin {"test", "first"} =>
            feature_names' = feature_names]_vars

\* the end of a run with two boosted chunks in which the test block's own
\* encoding had other columns than feature_names
C25_Witness ==
    /\ epc = "explained"
    /\ Len(boosted) >= 2
    /\ feature_names # <<>>
    /\ boosted[1] = feature_names
    /\ X_test_pre.cols # feature_names
    /\ dtest_cols = feature_names

(***************************************************************************)
(* Floating-point values as the program tells them apart: a finite value   *)
(* num / den (den > 0), NaN, and the two infinities.                       *)
(***************************************************************************)
Fin(n, d) == [kind |-> "finite", num |-> n, den |-> d]
NaN == [kind |-> "nan", num |-> 0, den |-> 1]
PosInf == [kind |-> "inf", num |-> 0, den |-> 1]
NegInf == [kind |-> "ninf", num |-> 0, den |-> 1]

\* np.isinf(x) or np.isnan(x)
IsInfOrNan(x) == x.kind \in {"inf", "ninf", "nan"}

\* a >= b for two finite values
Geq(a, b) == a.num * b.den >= b.num * a.den

(***************************************************************************)
(* get_feature_importance.  importance_scores is the dict returned by      *)
(* model.get_score(importance_type='gain'): a function from the features   *)
(* the trees split on to their gain.                                       *)
(***************************************************************************)
\* features of the schemas tried, and the largest finite gain
MaxFeatures == 3
MaxGain == 2

FeaturePool == <<"f1", "f2", "f3", "f4", "f5", "f6">>
FeatureSchemas == {SubSeq(FeaturePool, 1, k) : k \in 0..MaxFeatures}
Gains == {Fin(g, 1) : g \in 0..MaxGain} \cup {PosInf, NaN}
ScoreDicts(names) ==
    UNION {[used -> Gains] : used \in SUBSET Range(names)}

\* sum(importance_scores.values()), then 1 when the sum equals 0
TotalImportance(scores) ==
    LET vals == [f \in DOMAIN scores |-> scores[f]]
        names == ListOfSet(DOMAIN scores)
        nums == [i \in DOMAIN names |-> scores[names[i]].num]
        total ==
            IF \E f \in DOMAIN scores : vals[f].kind = "nan" THEN NaN
            ELSE IF \E f \in DOMAIN scores : vals[f].kind = "inf" THEN PosInf
            ELSE Fin(SumSeq(nums), 1)
    IN IF total.kind = "finite" /\ total.num = 0 THEN Fin(1, 1) ELSE total

\* score / total_importance in floating point
Divide(score, total) ==
    CASE total.kind = "nan" -> NaN
      [] total.kind = "inf" -> Fin(0, 1)
      [] OTHER -> Fin(score.num, total.num)

\* the loop body for a feature found in importance_scores
NormalizedScore(scores, f, total) ==
    LET score == IF IsInfOrNan(scores[f]) THEN Fin(0, 1) ELSE scores[f]
    IN Divide(score, total)

\* one entry per feature of feature_names, in that order
ImportanceEntries(names, scores) ==
    LET total_importance == TotalImportance(scores)
    IN [i \in DOMAIN names |->
           [feature |-> names[i],
            importance |->
                IF names[i] \in DOMAIN scores
                THEN NormalizedScore(scores, names[i], total_importance)
                ELSE Fin(0, 1)]]

\* e goes behind every entry that is not smaller than it
InsertDesc(sorted, e) ==
    LET NotSmaller(x) == Geq(x.importance, e.importance)
        k == Cardinality({i \in DOMAIN sorted : NotSmaller(sorted[i])})
    IN SubSeq(sorted, 1, k) \o <<e>> \o SubSeq(sorted, k + 1, Len(sorted))

RECURSIVE SortDescFrom(_, _, _)
SortDescFrom(entries, i, acc) ==
    IF i > Len(entries) THEN acc
    ELSE SortDescFrom(entries, i + 1, InsertDesc(acc, entries[i]))

\* feature_importance.sort(key=importance, reverse=True): a stable sort
SortDescStable(entries) == SortDescFrom(entries, 1, <<>>)

Orderings(q) ==
    LET n == Len(q)
        perms == {pi \in [1..n -> 1..n] :
                     \A i, j \in 1..n : pi[i] = pi[j] => i = j}
    IN {[i \in 1..n |-> q[pi[i]]] : pi \in perms}

\* the lists get_feature_importance can return.  With a NaN among the
\* keys every comparison is False and the order the sort leaves is not
\* determined by the keys: any order is kept as an outcome.
GetFeatureImportance(has_model, names, scores) ==
    IF ~has_model \/ names = <<>> THEN {<<>>}
    ELSE LET entries == ImportanceEntries(names, scores)
         IN IF \E i \in DOMAIN entries : entries[i].importance.kind = "nan"
            THEN Orderings(entries)
            ELSE {SortDescStable(entries)}

(***************************************************************************)
(* Metrics, explainability artifacts and the returned dict.  A dict is a   *)
(* function from its keys.                                                 *)
(***************************************************************************)
\* rows of X_test tried: 1..MaxTestRows and one block above the sample cap
MaxTestRows == 3
ShapSampleCap == 100
TestBlockSizes == 1..MaxTestRows \cup {ShapSampleCap + 50}

MetricNames == {"test_rmse", "test_r2", "train_rmse", "train_r2"}
\* what np.sqrt(mean_squared_error(..)) and r2_score(..) can evaluate to
RmseValues == {Fin(2, 1), NaN, PosInf}
R2Values == {Fin(-1, 1), NaN, NegInf}
RawMetrics ==
    {[test_rmse |-> a, test_r2 |-> b, train_rmse |-> c, train_r2 |-> d] :
        a \in RmseValues, b \in R2Values, c \in RmseValues, d \in R2Values}

SanitizeNanOnly(x) == IF x.kind = "nan" THEN Fin(0, 1) ELSE x

\* float(x) if not np.isinf(x) and not np.isnan(x) else 0.0
Sanitize(x) == IF IsInfOrNan(x) THEN Fin(0, 1) ELSE x

\* self.metrics of _process_all_data: four keys
FullMetrics(raw) == [k \in MetricNames |-> Sanitize(raw[k])]

\* self.metrics of _process_in_chunks: the four keys and chunks_processed
ChunkedMetrics(raw, n) ==
    [k \in MetricNames \cup {"chunks_processed"} |->
        IF k = "chunks_processed" THEN n ELSE Sanitize(raw[k])]

ShapArtifactsNoThreshold(n) ==
    LET sample_size == Min(ShapSampleCap, n)
    IN <<"bar_plot", "beeswarm_plot">>
       \o (IF sample_size > 0 THEN <<"waterfall_plot">> ELSE <<>>)
       \o <<"waterfall_plot_low", "waterfall_plot_medium",
            "waterfall_plot_high">>

\* the plots _generate_shap_plots draws, in order, for a test block of n rows
ShapArtifacts(n) ==
    LET sample_size == Min(ShapSampleCap, n)
    IN <<"bar_plot", "beeswarm_plot">>
       \o (IF sample_size > 0 THEN <<"waterfall_plot">> ELSE <<>>)
       \o (IF sample_size >= 3
           THEN <<"waterfall_plot_low", "waterfall_plot_medium",
                  "waterfall_plot_high">>
           ELSE <<>>)

\* what can raise inside the try block: nothing, the explainer, or a plot
RenderFailures ==
    {"none", "explainer", "bar_plot", "beeswarm_plot", "waterfall_plot",
     "waterfall_plot_low", "waterfall_plot_medium", "waterfall_plot_high"}

\* the try block raises: the explainer fails, or a plot that is drawn fails
RenderRaises(n, fails) ==
    fails = "explainer" \/ fails \in Range(ShapArtifacts(n))

\* plots saved by _get_plot_as_base64 before the try block ended
Rendered(n, fails) ==
    LET steps == ShapArtifacts(n)
    IN IF fails = "explainer" THEN {}
       ELSE IF fails \in Range(steps)
            THEN LET k == CHOOSE i \in DOMAIN steps : steps[i] = fails
                 IN {steps[i] : i \in 1..(k - 1)}
            ELSE Range(steps)

\* _generate_shap_plots: result, or {"error": str(e)} from the except branch
GenerateShapPlots(n, fails) ==
    IF RenderRaises(n, fails)
    THEN [k \in {"error"} |-> fails]
    ELSE [k \in Range(ShapArtifacts(n)) |-> "png"]

\* the dict returned by _process_all_data
FullResult(m, fi, shap, n) ==
    [model |-> "xgboost", metrics |-> m, feature_importance |-> fi,
     shap_plots |-> shap, processing_type |-> "full", total_rows |-> n]

\* the dict returned by _process_in_chunks
ChunkedResult(m, fi, shap, n, rpc, processed) ==
    [model |-> "xgboost", metrics |-> m, feature_importance |-> fi,
     shap_plots |-> shap, processing_type |-> "chunked", total_rows |-> n,
     rows_per_chunk |-> rpc, chunks_processed |-> processed]

\* sanitize_value of the router on the returned dict: every float that is
\* NaN or infinite becomes 0.0, ints and strings are left alone
SanitizeValue(res) ==
    [res EXCEPT
        !.metrics = [k \in DOMAIN @ |->
                        IF k = "chunks_processed" THEN @[k]
                        ELSE Sanitize(@[k])],
        !.feature_importance =
            [i \in DOMAIN @ |->
                [@[i] EXCEPT !.importance = Sanitize(@)]]]

(***************************************************************************)
(* memory_efficient_analyze (routers/analysis.py) around one run of the    *)
(* trainer (SpecApi).  The run is seen through what it reads and returns;  *)
(* its row arithmetic is the subject of Spec.                              *)
(***************************************************************************)
\* what the store holds for the dataset id: nothing, the bytes under the id
\* itself, metadata with its chunks, metadata whose chunks are gone, or a
\* store whose get raises
StoreKinds == {"none", "direct", "meta", "meta_lost", "unreachable"}
Requests ==
    [dataset : StoreKinds, has_date : BOOLEAN, has_target : BOOLEAN,
     delete_after_analysis : BOOLEAN]

\* retrieve_parquet_data: the keys it reads and what it returns
RetrieveParquetData(kind) ==
    CASE kind = "unreachable" -> [gets |-> <<"meta">>, data |-> "none"]
      [] kind = "none" -> [gets |-> <<"meta", "direct">>, data |-> "none"]
      [] kind = "direct" -> [gets |-> <<"meta", "direct">>, data |-> "bytes"]
      [] kind = "meta" -> [gets |-> <<"meta", "chunk">>, data |-> "bytes"]
      [] OTHER -> [gets |-> <<"meta", "chunk">>, data |-> "empty"]

NotParquetDataNoneOnly(data) == data = "none"

\* the keys a dataset of the kind has in the store; an unreachable store
\* holds the bytes under the id
StoreKeys(kind) ==
    CASE kind = "none" -> {}
      [] kind = "direct" -> {"direct"}
      [] kind = "meta" -> {"meta", "chunk"}
      [] kind = "meta_lost" -> {"meta"}
      [] OTHER -> {"direct"}

\* delete_dataset: True and every key gone, or False, when a call of the
\* client raised before any key or after the chunks were deleted, or when
\* the keys had expired
DeleteDataset(keys) ==
    {[success |-> "True", keys |-> {}]} \cup
    {[success |-> "False", keys |-> k] : k \in {keys, keys \ {"chunk"}, {}}}

\* not parquet_data
NotParquetData(data) == data \in {"none", "empty"}

\* the run of Scenario B, and a small table for the full-batch path
ApiTotalRows == 50000
ApiRowsPerChunk == 10000
ApiChunksProcessed == 4
ApiFullRows == 500
ApiSchema == <<"f1", "f2">>
ApiScoreDicts ==
    {EmptyDict, [k \in {"f2"} |-> Fin(2, 1)], [k \in {"f1"} |-> NaN]}

ApiInit ==
    /\ apc = "start"
    /\ request \in Requests
    /\ retrieve_calls = 0
    /\ store_gets = <<>>
    /\ delete_calls = 0
    /\ store_keys = StoreKeys(request.dataset)
    /\ delete_success = "not_called"
    /\ parquet_data = "none"
    /\ ml_processor = FALSE
    /\ processing_type = "none"
    /\ rows_seen = {}
    /\ trained = FALSE
    /\ X_test_len = 0
    /\ raw_metrics = NoMetrics
    /\ metrics = EmptyDict
    /\ render_failure = "none"
    /\ shap_plots = EmptyDict
    /\ rendered = {}
    /\ schema = <<>>
    /\ importance_scores = EmptyDict
    /\ feature_importance = <<>>
    /\ run_result = NoResult
    /\ response = NoResponse

InitApi == MainIdle /\ EncIdle /\ ApiInit /\ PctIdle /\ IsoIdle

apiRunVars == <<processing_type, rows_seen, trained, X_test_len, raw_metrics,
                metrics, render_failure, shap_plots, rendered, schema,
                importance_scores, feature_importance, run_result>>
apiStoreVars == <<request, retrieve_calls, store_gets, delete_calls,
                  store_keys, delete_success,
                  parquet_data, ml_processor>>

\* Step 1: retrieve_parquet_data, and the 404 when it returned nothing
ApiRetrieve ==
    /\ apc = "start"
    /\ UNCHANGED <<mainVars, encVars, pctVars, isoVars>>
    /\ LET got == RetrieveParquetData(request.dataset)
       IN /\ retrieve_calls' = retrieve_calls + 1
          /\ store_gets' = store_gets \o got.gets
          /\ parquet_data' = got.data
          /\ IF NotParquetData(got.data)
             THEN /\ response' = [status |-> 404,
                                  error |-> "Dataset not found"]
                  /\ apc' = "responded"
             ELSE /\ response' = response
                  /\ apc' = "construct"
    /\ UNCHANGED <<request, delete_calls, store_keys, delete_success,
                   ml_processor, apiRunVars>>

\* Step 2: MemoryEfficientML(...) and the ChunkedXGBoostProcessor it makes
ApiConstruct ==
    /\ apc = "construct"
    /\ UNCHANGED <<mainVars, encVars, pctVars, isoVars>>
    /\ ml_processor' = TRUE
    /\ apc' = "plan"
    /\ UNCHANGED <<request, retrieve_calls, store_gets, delete_calls,
                   store_keys, delete_success, parquet_data, apiRunVars,
                   response>>

\* process_parquet_bytes up to the choice of the path (schema, count,
\* estimate): no query has been issued yet
TrainerPlan ==
    /\ apc = "plan"
    /\ UNCHANGED <<mainVars, encVars, pctVars, isoVars>>
    /\ processing_type' \in {"full", "chunked"}
    /\ X_test_len' \in TestBlockSizes
    /\ apc' = "query"
    /\ UNCHANGED <<apiStoreVars, rows_seen, trained, raw_metrics, metrics,
                   render_failure, shap_plots, rendered, schema,
                   importance_scores, feature_importance, run_result,
                   response>>

\* the queries before training.  columns_to_include always names the date
\* column, so the first query raises when the table has no such column.  A
\* missing target column is left out of the query; in the chunked path
\* y_chunk is then None and y_chunk.copy() raises after the test block and
\* the first chunk have been fetched.
TrainerQuery ==
    /\ apc = "query"
    /\ UNCHANGED <<mainVars, encVars, pctVars, isoVars>>
    /\ IF ~request.has_date
       THEN /\ run_result' = Failure("BinderException")
            /\ rows_seen' = rows_seen
            /\ apc' = "respond"
       ELSE IF processing_type = "chunked"
            THEN /\ rows_seen' = {"test", "chunk"}
                 /\ IF request.has_target
                    THEN run_result' = run_result /\ apc' = "train"
                    ELSE /\ run_result' = Failure("AttributeError")
                         /\ apc' = "respond"
            ELSE /\ rows_seen' = {"all"}
                 /\ run_result' = run_result
                 /\ apc' = "train"
    /\ UNCHANGED <<apiStoreVars, processing_type, trained, X_test_len,
                   raw_metrics, metrics, render_failure, shap_plots, rendered,
                   schema, importance_scores, feature_importance, response>>

\* xgb.DMatrix and xgb.train.  Without a target column (full-batch path)
\* the labels are None: xgb.train raises, or it returns and
\* mean_squared_error(None, ..) raises afterwards.
TrainerTrain ==
    /\ apc = "train"
    /\ UNCHANGED <<mainVars, encVars, pctVars, isoVars>>
    /\ IF request.has_target
       THEN /\ trained' = TRUE
            /\ run_result' = run_result
            /\ apc' = "metrics"
       ELSE /\ \E e \in {"XGBoostError", "TypeError", "ValueError"} :
                  /\ run_result' = Failure(e)
                  /\ trained' = (e # "XGBoostError")
            /\ apc' = "respond"
    /\ UNCHANGED <<apiStoreVars, processing_type, rows_seen, X_test_len,
                   raw_metrics, metrics, render_failure, shap_plots, rendered,
                   schema, importance_scores, feature_importance, response>>

\* the four metrics and self.metrics
TrainerMetrics ==
    /\ apc = "metrics"
    /\ UNCHANGED <<mainVars, encVars, pctVars, isoVars>>
    /\ \E raw \in RawMetrics :
          /\ raw_metrics' = raw
          /\ metrics' = IF processing_type = "full"
                        THEN FullMetrics(raw)
                        ELSE ChunkedMetrics(raw, ApiChunksProcessed)
    /\ apc' = "shap"
    /\ UNCHANGED <<apiStoreVars, processing_type, rows_seen, trained,
                   X_test_len, render_failure, shap_plots, rendered, schema,
                   importance_scores, feature_importance, run_result,
                   response>>

\* shap_plots = self._generate_shap_plots(X_test, self.feature_names)
TrainerShap ==
    /\ apc = "shap"
    /\ UNCHANGED <<mainVars, encVars, pctVars, isoVars>>
    /\ \E fails \in RenderFailures :
          /\ render_failure' = fails
          /\ shap_plots' = GenerateShapPlots(X_test_len, fails)
          /\ rendered' = Rendered(X_test_len, fails)
    /\ apc' = "importance"
    /\ UNCHANGED <<apiStoreVars, processing_type, rows_seen, trained,
                   X_test_len, raw_metrics, metrics, schema,
                   importance_scores, feature_importance, run_result,
                   response>>

\* feature_importance = self.get_feature_importance()
TrainerImportance ==
    /\ apc = "importance"
    /\ UNCHANGED <<mainVars, encVars, pctVars, isoVars>>
    /\ schema' = ApiSchema
    /\ \E scores \in ApiScoreDicts :
          /\ importance_scores' = scores
          /\ feature_importance' \in
                 GetFeatureImportance(trained, ApiSchema, scores)
    /\ apc' = "return"
    /\ UNCHANGED <<apiStoreVars, processing_type, rows_seen, trained,
                   X_test_len, raw_metrics, metrics, render_failure,
                   shap_plots, rendered, run_result, response>>

\* the return statement of _process_all_data or _process_in_chunks
TrainerReturn ==
    /\ apc = "return"
    /\ UNCHANGED <<mainVars, encVars, pctVars, isoVars>>
    /\ run_result' =
          [kind |-> "result",
           value |-> IF processing_type = "full"
                     THEN FullResult(metrics, feature_importance, shap_plots,
                                     ApiFullRows)
                     ELSE ChunkedResult(metrics, feature_importance,
                                        shap_plots, ApiTotalRows,
                                        ApiRowsPerChunk, ApiChunksProcessed)]
    /\ apc' = "respond"
    /\ UNCHANGED <<apiStoreVars, processing_type, rows_seen, trained,
                   X_test_len, raw_metrics, metrics, render_failure,
                   shap_plots, rendered, schema, importance_scores,
                   feature_importance, response>>

\* a handler that answers 500 when delete_dataset returned False
ApiRespondDeleteFatal ==
    /\ apc = "respond"
    /\ UNCHANGED <<mainVars, encVars, pctVars, isoVars>>
    /\ IF run_result.kind = "error"
       THEN /\ response' =
                  [status |-> IF run_result.error = "ValueError"
                              THEN 400 ELSE 500,
                   error |-> IF run_result.error = "ValueError"
                             THEN "Invalid request" ELSE "Analysis error"]
            /\ UNCHANGED <<delete_calls, store_keys, delete_success>>
       ELSE IF request.delete_after_analysis
            THEN \E out \in DeleteDataset(store_keys) :
                    /\ delete_calls' = delete_calls + 1
                    /\ store_keys' = out.keys
                    /\ delete_success' = out.success
                    /\ response' =
                          IF out.success = "True"
                          THEN [status |-> 200,
                                body |-> SanitizeValue(
                                    run_result.value
                                    @@ [processor_type |-> "chunked",
                                        resource_usage |-> "measured"])]
                          ELSE [status |-> 500,
                                error |-> "An error occurred"]
            ELSE /\ response' =
                       [status |-> 200,
                        body |-> SanitizeValue(
                            run_result.value
                            @@ [processor_type |-> "chunked",
                                resource_usage |-> "measured"])]
                 /\ UNCHANGED <<delete_calls, store_keys, delete_success>>
    /\ apc' = "responded"
    /\ UNCHANGED <<request, retrieve_calls, store_gets, parquet_data,
                   ml_processor, apiRunVars>>

\* the rest of the handler: a raised ValueError becomes a 400, any other
\* exception a 500; a returned dict gets processor_type and resource_usage
\* from MemoryEfficientML, is sanitized, the dataset is deleted when asked
\* for, and the dict is the answer
ApiRespond ==
    /\ apc = "respond"
    /\ UNCHANGED <<mainVars, encVars, pctVars, isoVars>>
    /\ IF run_result.kind = "error"
       THEN /\ response' =
                  [status |-> IF run_result.error = "ValueError"
                              THEN 400 ELSE 500,
                   error |-> IF run_result.error = "ValueError"
                             THEN "Invalid request" ELSE "Analysis error"]
            /\ UNCHANGED <<delete_calls, store_keys, delete_success>>
       ELSE /\ response' =
                  [status |-> 200,
                   body |-> SanitizeValue(
                       run_result.value
                       @@ [processor_type |-> "chunked",
                           resource_usage |-> "measured"])]
            /\ IF request.delete_after_analysis
               THEN \E out \in DeleteDataset(store_keys) :
                       /\ delete_calls' = delete_calls + 1
                       /\ store_keys' = out.keys
                       /\ delete_success' = out.success
               ELSE UNCHANGED <<delete_calls, store_keys, delete_success>>
    /\ apc' = "responded"
    /\ UNCHANGED <<request, retrieve_calls, store_gets, parquet_data,
                   ml_processor, apiRunVars>>

NextApi ==
    \/ ApiRetrieve
    \/ ApiConstruct
    \/ TrainerPlan
    \/ TrainerQuery
    \/ TrainerTrain
    \/ TrainerMetrics
    \/ TrainerShap
    \/ TrainerImportance
    \/ TrainerReturn
    \/ ApiRespond

SpecApi == InitApi /\ [][NextApi]_vars

(***************************************************************************)
(* get_feature_importance on its own (SpecImp): every schema of up to      *)
(* MaxFeatures features and every gain dict over it.                       *)
(***************************************************************************)
ImpInit ==
    /\ apc = "importance_only"
    /\ request = NoRequest
    /\ retrieve_calls = 0
    /\ store_gets = <<>>
    /\ delete_calls = 0
    /\ store_keys = {}
    /\ delete_success = "not_called"
    /\ parquet_data = "none"
    /\ ml_processor = FALSE
    /\ processing_type = "none"
    /\ rows_seen = {}
    /\ trained \in BOOLEAN
    /\ X_test_len = 0
    /\ raw_metrics = NoMetrics
    /\ metrics = EmptyDict
    /\ render_failure = "none"
    /\ shap_plots = EmptyDict
    /\ rendered = {}
    /\ schema \in FeatureSchemas
    /\ importance_scores \in
           (IF trained THEN ScoreDicts(schema) ELSE {EmptyDict})
    /\ feature_importance = <<>>
    /\ run_result = NoResult
    /\ response = NoResponse

InitImp == MainIdle /\ EncIdle /\ ImpInit /\ PctIdle /\ IsoIdle

\* a call of get_feature_importance
ImpGetFeatureImportance ==
    /\ apc = "importance_only"
    /\ UNCHANGED <<mainVars, encVars, pctVars, isoVars>>
    /\ feature_importance' \in
           GetFeatureImportance(trained, schema, importance_scores)
    /\ apc' = "importance_done"
    /\ UNCHANGED <<apiStoreVars, processing_type, rows_seen, trained,
                   X_test_len, raw_metrics, metrics, render_failure,
                   shap_plots, rendered, schema, importance_scores,
                   run_result, response>>

NextImp == ImpGetFeatureImportance

SpecImp == InitImp /\ [][NextImp]_vars

(***************************************************************************)
(* The choice of the low, medium and high rows of _generate_shap_plots on  *)
(* its own (SpecPct).  Row indices and positions count from 0 as in the    *)
(* code; position k of a list is element k + 1 of the sequence.            *)
(***************************************************************************)
MaxSample == 4
MaxPred == 2

\* n distinct predictions in an order that is not sorted
Scrambled(n) == [i \in 1..n |-> (i * 7) % n]

\* y_pred of the samples: every list of 3..MaxSample predictions out of
\* 0..MaxPred, and lists of distinct predictions of 10, 11 and 100 rows
Predictions ==
    UNION {[1..n -> 0..MaxPred] : n \in 3..MaxSample}
    \cup {Scrambled(10), Scrambled(11), Scrambled(ShapSampleCap)}

RECURSIVE ArgSortsOf(_, _)
\* the orders of the row indices in S that are ascending in q
ArgSortsOf(q, S) ==
    IF S = {} THEN {<<>>}
    ELSE LET least == {i \in S : \A j \in S : q[i + 1] <= q[j + 1]}
         IN UNION {{<<i>> \o rest : rest \in ArgSortsOf(q, S \ {i})} :
                      i \in least}

\* np.argsort(y_pred): the default sort is not stable, so equal predictions
\* may come in any order.  Distinct predictions have one order: the row
\* with k smaller predictions is at position k.
ArgSort(q) ==
    LET n == Len(q)
        Smaller(i) == Cardinality({j \in 1..n : q[j] < q[i + 1]})
    IN IF \A i, j \in 1..n : i # j => q[i] # q[j]
       THEN {[k \in 1..n |-> CHOOSE i \in 0..(n - 1) : Smaller(i) = k - 1]}
       ELSE ArgSortsOf(q, 0..(n - 1))

\* a position that counts from the top of the ranking
PercentilePositionFromTop(n, tenths) == (n * (10 - tenths)) \div 10

\* int(n_samples * 0.1), int(n_samples * 0.5), int(n_samples * 0.9): the
\* double product truncates to floor(n * tenths / 10) for every n up to 100
PercentilePosition(n, tenths) == (n * tenths) \div 10

PctInit ==
    /\ y_pred \in Predictions
    /\ sorted_indices = <<>>
    /\ force_idx = NoForce

InitPct == MainIdle /\ EncIdle /\ ApiIdle /\ PctInit /\ IsoIdle

\* sorted_indices = np.argsort(y_pred); low_idx, med_idx, high_idx
SelectForceRows ==
    /\ force_idx = NoForce
    /\ Len(y_pred) >= 3
    /\ UNCHANGED <<mainVars, encVars, isoVars>>
    /\ sorted_indices' \in ArgSort(y_pred)
    /\ LET n_samples == Len(sorted_indices')
       IN force_idx' =
              [low |-> sorted_indices'[PercentilePosition(n_samples, 1) + 1],
               med |-> sorted_indices'[PercentilePosition(n_samples, 5) + 1],
               high |-> sorted_indices'[PercentilePosition(n_samples, 9) + 1]]
    /\ UNCHANGED <<apc, request, retrieve_calls, store_gets, delete_calls,
          store_keys, delete_success,
                   parquet_data, ml_processor, processing_type, rows_seen,
                   trained, X_test_len, raw_metrics, metrics, render_failure,
                   shap_plots, rendered, schema, importance_scores,
                   feature_importance, run_result, response, y_pred>>

NextPct == SelectForceRows

SpecPct == InitPct /\ [][NextPct]_vars

(***************************************************************************)
(* Two requests to memory_efficient_analyze served by one process          *)
(* (SpecIso).  The handler and everything it awaits are coroutines without *)
(* a suspension point (the store client is synchronous), so the event loop *)
(* runs a handler from its first statement to its return before it starts  *)
(* the next one.  A dataset stands for its content: training on dataset d  *)
(* gives the schema, the ensemble, the metrics and the plots of d.         *)
(***************************************************************************)
Runs == {1, 2}
Datasets == {"A", "B"}

\* a ChunkedXGBoostProcessor after __init__
NoProcessor == [model |-> "None", feature_names |-> "None", metrics |-> "{}"]

NoTask == [rpc |-> "pending", dataset |-> "A", delete |-> FALSE,
           found |-> FALSE, instance |-> 0, plots |-> {},
           result |-> [status |-> 0]]

\* what a run on dataset d returns when nothing else touches its state
AloneResult(d) ==
    [status |-> 200, feature_names |-> d, model |-> d, metrics |-> d,
     shap_plots |-> {d}]

NotFound == [status |-> 404]

\* one processor object shared by every request
SharedInstance(h) == 1

\* ChunkedXGBoostProcessor(...): a new object
NewInstance(h) == Len(h) + 1

\* the heap after the construction of a processor at address i
Construct(h, i) ==
    [j \in (DOMAIN h) \cup {i} |-> IF j = i THEN NoProcessor ELSE h[j]]

Access(r, i, kind, attr) == [run |-> r, instance |-> i, kind |-> kind,
                             attr |-> attr]

IsoInit ==
    /\ tasks \in {[r \in Runs |->
                     [NoTask EXCEPT !.dataset = ds[r], !.delete = del[r]]] :
                  ds \in [Runs -> Datasets], del \in [Runs -> BOOLEAN]}
    /\ running = 0
    /\ heap = <<>>
    /\ accesses = {}
    /\ figure = {}
    /\ store = Datasets

InitIso == MainIdle /\ EncIdle /\ ApiIdle /\ PctIdle /\ IsoInit

isoOther == <<mainVars, encVars, apc, apiStoreVars, apiRunVars, response,
              pctVars>>

\* Step 1: retrieve_parquet_data and the 404 of an absent dataset
IsoRetrieve(r) ==
    /\ running = 0
    /\ tasks[r].rpc = "pending"
    /\ IF tasks[r].dataset \in store
       THEN /\ tasks' = [tasks EXCEPT ![r].rpc = "construct",
                                      ![r].found = TRUE]
            /\ running' = r
       ELSE /\ tasks' = [tasks EXCEPT ![r].rpc = "done",
                                      ![r].result = NotFound]
            /\ running' = 0
    /\ UNCHANGED <<heap, accesses, figure, store, isoOther>>

\* MemoryEfficientML(...) and, in process_parquet_bytes, its processor
IsoConstruct(r) ==
    /\ running = r
    /\ tasks[r].rpc = "construct"
    /\ LET i == NewInstance(heap)
       IN /\ heap' = Construct(heap, i)
          /\ tasks' = [tasks EXCEPT ![r].rpc = "train", ![r].instance = i]
    /\ UNCHANGED <<running, accesses, figure, store, isoOther>>

\* training: self.feature_names and self.model are written
IsoTrain(r) ==
    /\ running = r
    /\ tasks[r].rpc = "train"
    /\ LET i == tasks[r].instance
       IN /\ heap' = [heap EXCEPT ![i].feature_names = tasks[r].dataset,
                                  ![i].model = tasks[r].dataset]
          /\ accesses' = accesses \cup {Access(r, i, "write", "feature_names"),
                                        Access(r, i, "write", "model")}
    /\ tasks' = [tasks EXCEPT ![r].rpc = "evaluate"]
    /\ UNCHANGED <<running, figure, store, isoOther>>

\* evaluation: self.model predicts, self.metrics is written
IsoEvaluate(r) ==
    /\ running = r
    /\ tasks[r].rpc = "evaluate"
    /\ LET i == tasks[r].instance
       IN /\ heap' = [heap EXCEPT ![i].metrics = heap[i].model]
          /\ accesses' = accesses \cup {Access(r, i, "read", "model"),
                                        Access(r, i, "write", "metrics")}
    /\ tasks' = [tasks EXCEPT ![r].rpc = "draw"]
    /\ UNCHANGED <<running, figure, store, isoOther>>

\* plt.figure() and shap.plots.*: the explanation of self.model is drawn on
\* pyplot's current figure
IsoDraw(r) ==
    /\ running = r
    /\ tasks[r].rpc = "draw"
    /\ figure' = {heap[tasks[r].instance].model}
    /\ accesses' = accesses \cup {Access(r, tasks[r].instance, "read", "model")}
    /\ tasks' = [tasks EXCEPT ![r].rpc = "save"]
    /\ UNCHANGED <<running, heap, store, isoOther>>

\* _get_plot_as_base64: plt.savefig of the current figure, plt.close()
IsoSave(r) ==
    /\ running = r
    /\ tasks[r].rpc = "save"
    /\ tasks' = [tasks EXCEPT ![r].rpc = "return", ![r].plots = figure]
    /\ figure' = {}
    /\ UNCHANGED <<running, heap, accesses, store, isoOther>>

\* the result dict, delete_dataset when requested, return
IsoReturn(r) ==
    /\ running = r
    /\ tasks[r].rpc = "return"
    /\ LET i == tasks[r].instance
       IN /\ tasks' = [tasks EXCEPT
                          ![r].rpc = "done",
                          ![r].result =
                              [status |-> 200,
                               feature_names |-> heap[i].feature_names,
                               model |-> heap[i].model,
                               metrics |-> heap[i].metrics,
                               shap_plots |-> tasks[r].plots]]
          /\ accesses' = accesses \cup
                 {Access(r, i, "read", "feature_names"),
                  Access(r, i, "read", "metrics")}
    /\ store' = IF tasks[r].delete THEN store \ {tasks[r].dataset} ELSE store
    /\ running' = 0
    /\ UNCHANGED <<heap, figure, isoOther>>

NextIso ==
    \E r \in Runs :
        \/ IsoRetrieve(r)
        \/ IsoConstruct(r)
        \/ IsoTrain(r)
        \/ IsoEvaluate(r)
        \/ IsoDraw(r)
        \/ IsoSave(r)
        \/ IsoReturn(r)

SpecIso == InitIso /\ [][NextIso]_vars

(***************************************************************************)
(* Properties of a request and its answer (SpecApi).                       *)
(***************************************************************************)
\* the trainer has ended: it returned or raised
RunEnded == ml_processor /\ apc \in {"respond", "responded"}

PercentilePlots ==
    {"waterfall_plot_low", "waterfall_plot_medium", "waterfall_plot_high"}

\* C12: InvalidColumn fail-fast.  When the target column or the date column
\* is not a column of the dataset, the run ends with an error, no query
\* has returned a row of the test block or of a training chunk, and no
\* model exists.
C12_InvalidColumnFailFast ==
    (RunEnded /\ (~request.has_date \/ ~request.has_target)) =>
        /\ run_result.kind = "error"
        /\ rows_seen = {}
        /\ ~trained

\* C13: metric finiteness.  In every returned result each of train_rmse,
\* test_rmse, train_r2, test_r2 is finite: exactly 0.0 where the computed
\* value was NaN or infinite, the computed value itself where it was
\* finite; the same holds for the answer of the handler.
C13_MetricFiniteness ==
    /\ run_result.kind = "result" =>
          \A k \in MetricNames :
             /\ k \in DOMAIN run_result.value.metrics
             /\ run_result.value.metrics[k].kind = "finite"
             /\ run_result.value.metrics[k] =
                    (IF raw_metrics[k].kind = "finite"
                     THEN raw_metrics[k]
                     ELSE [kind |-> "finite", num |-> 0, den |-> 1])
    /\ response.status = 200 =>
          \A k \in MetricNames :
             response.body.metrics[k] = run_result.value.metrics[k]

\* a chunked result whose computed metrics held a NaN, both infinities and
\* a finite value
C13_Witness ==
    /\ run_result.kind = "result"
    /\ processing_type = "chunked"
    /\ raw_metrics.test_r2.kind = "nan"
    /\ raw_metrics.train_rmse.kind = "inf"
    /\ raw_metrics.train_r2.kind = "ninf"
    /\ raw_metrics.test_rmse.kind = "finite"
    /\ run_result.value.metrics["train_rmse"] = Fin(0, 1)
    /\ run_result.value.metrics["test_rmse"] = raw_metrics.test_rmse

\* C14: complete result.  Every returned result has metrics with the five
\* fields train_rmse, test_rmse, train_r2, test_r2 and chunks_processed, a
\* feature_importance list, shap_plots with bar_plot, beeswarm_plot and
\* waterfall_plot, plus processing_type and total_rows.
C14_CompleteResult ==
    run_result.kind = "result" =>
        /\ {"metrics", "feature_importance", "shap_plots", "processing_type",
            "total_rows"} \subseteq DOMAIN run_result.value
        /\ MetricNames \cup {"chunks_processed"}
               \subseteq DOMAIN run_result.value.metrics
        /\ {"bar_plot", "beeswarm_plot", "waterfall_plot"}
               \subseteq DOMAIN run_result.value.shap_plots

\* C16: degenerate explainability sample.  With fewer than 3 sampled rows
\* the three percentile keys are absent from shap_plots and an error key
\* is there only if the explainer or a plot that was drawn raised; with 3
\* or more rows, and nothing raising, all three keys are present.
C16_DegenerateSample ==
    (apc \in {"importance", "return"} \/ run_result.kind = "result") =>
        LET sample_size == IF X_test_len < 100 THEN X_test_len ELSE 100
        IN /\ sample_size < 3 =>
                 /\ PercentilePlots \cap DOMAIN shap_plots = {}
                 /\ "error" \in DOMAIN shap_plots =>
                        render_failure \in {"explainer", "bar_plot",
                                            "beeswarm_plot", "waterfall_plot"}
           /\ (sample_size >= 3 /\ "error" \notin DOMAIN shap_plots) =>
                 PercentilePlots \subseteq DOMAIN shap_plots

\* a two-row sample: the percentile plots are skipped (one that would have
\* raised is never drawn) and the three basic plots are returned
C16_Witness ==
    /\ apc = "responded"
    /\ X_test_len = 2
    /\ render_failure = "waterfall_plot_low"
    /\ response.status = 200
    /\ DOMAIN response.body.shap_plots =
           {"bar_plot", "beeswarm_plot", "waterfall_plot"}

\* C17: artifact failure isolation.  When a plot raises, shap_plots has the
\* error key, still holds every plot that had been rendered before, and
\* the result still has its metrics and its feature importance.
C17_ArtifactFailureIsolation ==
    run_result.kind = "result" =>
        /\ render_failure \in {"explainer", "bar_plot", "beeswarm_plot"} =>
               "error" \in DOMAIN run_result.value.shap_plots
        /\ "error" \in DOMAIN run_result.value.shap_plots =>
               /\ "metrics" \in DOMAIN run_result.value
               /\ "feature_importance" \in DOMAIN run_result.value
               /\ rendered \subseteq DOMAIN run_result.value.shap_plots

\* C20: DatasetNotFound.  When the store has no data for the dataset id the
\* handler answers 404 "Dataset not found" after one call of
\* retrieve_parquet_data that reads no key twice, constructs no trainer,
\* runs nothing and never calls delete_dataset.
C20_DatasetNotFound ==
    (retrieve_calls >= 1 /\ parquet_data \in {"none", "empty"}) =>
        /\ apc = "responded"
        /\ response.status = 404
        /\ response.error = "Dataset not found"
        /\ retrieve_calls = 1
        /\ \A i, j \in DOMAIN store_gets :
              store_gets[i] = store_gets[j] => i = j
        /\ ~ml_processor
        /\ processing_type = "none"
        /\ ~trained
        /\ run_result = NoResult
        /\ delete_calls = 0

\* the store has neither metadata nor the bytes, deletion was asked for
C20_Witness ==
    /\ apc = "responded"
    /\ request.dataset = "none"
    /\ request.delete_after_analysis
    /\ store_gets = <<"meta", "direct">>
    /\ response.status = 404
    /\ delete_calls = 0

(***************************************************************************)
(* Properties of get_feature_importance (SpecImp).                         *)
(***************************************************************************)
\* position of a feature in the Feature Schema
SchemaIndex(f) == CHOOSE i \in DOMAIN schema : schema[i] = f

\* C15: feature-importance table.  One entry per column of feature_names,
\* every importance in [0,1], entries sorted non-increasing with ties in
\* schema order, features never split upon at 0.0, and all entries 0.0
\* when the raw gains sum to 0.
C15_ImportanceTable ==
    (apc = "importance_done" /\ trained) =>
        LET fi == feature_importance
        IN /\ Len(fi) = Len(schema)
           /\ \A f \in Range(schema) :
                 Cardinality({i \in DOMAIN fi : fi[i].feature = f}) = 1
           /\ \A i \in DOMAIN fi :
                 /\ fi[i].importance.kind = "finite"
                 /\ fi[i].importance.num >= 0
                 /\ fi[i].importance.num <= fi[i].importance.den
                 /\ fi[i].feature \notin DOMAIN importance_scores =>
                        fi[i].importance.num = 0
           /\ \A i, j \in DOMAIN fi :
                 i < j =>
                   /\ fi[i].importance.num * fi[j].importance.den
                          >= fi[j].importance.num * fi[i].importance.den
                   /\ (fi[i].importance.num * fi[j].importance.den
                           = fi[j].importance.num * fi[i].importance.den)
                         => SchemaIndex(fi[i].feature)
                               < SchemaIndex(fi[j].feature)
           /\ (\A f \in DOMAIN importance_scores :
                    importance_scores[f].kind = "finite"
                    /\ importance_scores[f].num = 0) =>
                 \A i \in DOMAIN fi : fi[i].importance.num = 0

(***************************************************************************)
(* Properties of the choice of the force-plot rows (SpecPct).              *)
(***************************************************************************)
\* C28: percentile selection.  For a sample of n rows, 3 <= n <= 100,
\* sorted_indices lists every row of the sample once, in ascending order of
\* the predicted values, and the low, medium and high rows are the rows at
\* positions floor(0.1 n), floor(0.5 n) and floor(0.9 n) of it; the three
\* positions lie in 0..n-1 and predicted(low) <= predicted(medium) <=
\* predicted(high).
C28_PercentileSelection ==
    force_idx # NoForce =>
        LET n == Len(y_pred)
            lo == (n * 1) \div 10
            md == (n * 5) \div 10
            hi == (n * 9) \div 10
        IN /\ n >= 3 /\ n <= ShapSampleCap
           /\ Len(sorted_indices) = n
           /\ Range(sorted_indices) = 0..(n - 1)
           /\ \A k \in 1..(n - 1) :
                 y_pred[sorted_indices[k] + 1]
                     <= y_pred[sorted_indices[k + 1] + 1]
           /\ {lo, md, hi} \subseteq 0..(n - 1)
           /\ force_idx.low = sorted_indices[lo + 1]
           /\ force_idx.med = sorted_indices[md + 1]
           /\ force_idx.high = sorted_indices[hi + 1]
           /\ y_pred[force_idx.low + 1] <= y_pred[force_idx.med + 1]
           /\ y_pred[force_idx.med + 1] <= y_pred[force_idx.high + 1]

\* a sample of 10 rows with distinct predictions: the rows at positions 1, 5
\* and 9 of the ranking, with strictly increasing predictions
C28_Witness ==
    /\ force_idx # NoForce
    /\ Len(y_pred) = 10
    /\ force_idx.low = sorted_indices[2]
    /\ force_idx.med = sorted_indices[6]
    /\ force_idx.high = sorted_indices[10]
    /\ y_pred[force_idx.low + 1] < y_pred[force_idx.med + 1]
    /\ y_pred[force_idx.med + 1] < y_pred[force_idx.high + 1]


(***************************************************************************)
(* Properties of two concurrent requests (SpecIso).                        *)
(***************************************************************************)
\* the processor attributes of a run are touched by that run alone
StateIsolated ==
    /\ \A a \in accesses : a.instance = tasks[a.run].instance
    /\ \A r1, r2 \in Runs :
           (r1 # r2 /\ tasks[r1].instance # 0) =>
               tasks[r1].instance # tasks[r2].instance

C30_DeletionAfterUse ==
    /\ delete_calls <= 1
    /\ delete_calls = 1 =>
           /\ request.delete_after_analysis
           /\ run_result.kind = "result"
           /\ apc = "responded"
    /\ delete_calls = 0 =>
           /\ store_keys = StoreKeys(request.dataset)
           /\ delete_success = "not_called"
    /\ (apc = "responded" /\ response.status # 200) =>
           /\ delete_calls = 0
           /\ store_keys = StoreKeys(request.dataset)
    /\ (apc = "responded" /\ run_result.kind = "result") =>
           /\ response =
                  [status |-> 200,
                   body |-> SanitizeValue(
                       run_result.value
                       @@ [processor_type |-> "chunked",
                           resource_usage |-> "measured"])]
           /\ delete_calls = IF request.delete_after_analysis THEN 1 ELSE 0

\* C30 witness: the run returned a result, deletion was asked for, the one
\* call of delete_dataset reported failure with the keys still in the
\* store, and the answer is the result with status 200.
C30_Witness ==
    /\ apc = "responded"
    /\ run_result.kind = "result"
    /\ request.delete_after_analysis
    /\ delete_calls = 1
    /\ delete_success = "False"
    /\ store_keys # {}
    /\ response.status = 200

====
